---------------------------- MODULE Spec2Model ----------------------------
(***************************************************************************)
(* 802.11 Block-Ack session management of                                  *)
(* drivers/staging/rtl8192u/ieee80211/rtl819x_BAProc.c.                    *)
(*                                                                         *)
(* Execution contexts: one serialized frame/caller path (Main) and one     *)
(* timer-callback context per BA record timer.  Every handler is cut into  *)
(* steps at the accesses of shared state that a timer callback can         *)
(* interleave with; del_timer_sync() is a blocking step.  A context that   *)
(* finishes a function passes through an observation label ("ret") at      *)
(* which its locals and the frames it sent can still be read.              *)
(*                                                                         *)
(* Byte order and bit-field layout are those of the little-endian target   *)
(* the tree is built for.                                                  *)
(***************************************************************************)
EXTENDS Integers, Sequences, FiniteSets, TLC

\* ------------------------------------------------------------------------
\* Program constants (rtl819x_BA.h / ieee80211.h values, used in BAProc.c)
\* ------------------------------------------------------------------------
HdrLen == 24
AddbaBodyLen == 9
DelbaBodyLen == 6
StartSeqCtrlHdrs == 7
ACT_CAT_BA == 3
ACT_ADDBAREQ == 0
ACT_ADDBARSP == 1
ACT_DELBA == 2
ADDBA_STATUS_SUCCESS == 0
ADDBA_STATUS_REFUSED == 37
ADDBA_STATUS_INVALID_PARAM == 38
DELBA_REASON_END_BA == 37
DELBA_REASON_UNKNOWN_BA == 38
DELBA_REASON_TIMEOUT == 39
BA_POLICY_DELAYED == 0
BA_POLICY_IMMEDIATE == 1
BA_SETUP_TIMEOUT == 200
IEEE80211_STYPE_MANAGE_ACT == 208
SeqModulus == 4096
SeqAdvance == 3
FullBufferSize == 32
HalfNBufferSize == 1

TX_DIR == "TX_DIR"
RX_DIR == "RX_DIR"

\* ------------------------------------------------------------------------
\* Bounds of the model
\* ------------------------------------------------------------------------
\* Operations the caller/frame path starts in one behaviour.
MaxOps == 3

\* ------------------------------------------------------------------------
\* Domains the inputs are drawn from
\* ------------------------------------------------------------------------
Peers == {"sta"}
\* the traffic stream the calls are made on, and a second stream of the same
\* peer that only the two-stream specification makes calls on
OwnTIDs == {3}
OtherTIDs == {5}
TIDs == OwnTIDs \cup OtherTIDs
Keys == Peers \X TIDs
DevAddr == "self"
Bssid == "bssid"

\* dialog tokens, timeouts and start sequence controls a peer puts in a frame
PeerTokens == {7}
RspTokens == {1, 2}
\* the tokens it echoes to a stream late in its life, around the wrap of the u8
LateRspTokens == {255, 0}
PeerTimeouts == {0, 100}
PeerStartSeqs == {80}
PeerBufferSizes == {64}
PeerAmsdu == {1}
\* what lies in the receive buffer beyond the end of the frame
OobVals == {80, 4660}
\* values of tx_cur_seq the transmit path may have reached
SeqVals == {0, 4094}

\* the capability the link lacks when a frame arrives, if any
LinkStates == {"none", "qos", "ht"}

U8 == 256

\* ------------------------------------------------------------------------
\* BA_PARAM_SET / DELBA_PARAM_SET / SEQUENCE_CONTROL bit fields
\* ------------------------------------------------------------------------
AMSDU_Support(ps) == ps % 2
BAPolicy(ps) == (ps \div 2) % 2
TID(ps) == (ps \div 4) % 16
BufferSize(ps) == (ps \div 64) % 1024

MkBaParamSet(amsdu, policy, tid, bufsz) ==
    (amsdu % 2) + 2 * (policy % 2) + 4 * (tid % 16) + 64 * (bufsz % 1024)

SetAMSDU(ps, v) == MkBaParamSet(v, BAPolicy(ps), TID(ps), BufferSize(ps))
SetBAPolicy(ps, v) == MkBaParamSet(AMSDU_Support(ps), v, TID(ps), BufferSize(ps))
SetTID(ps, v) == MkBaParamSet(AMSDU_Support(ps), BAPolicy(ps), v, BufferSize(ps))
SetBufferSize(ps, v) == MkBaParamSet(AMSDU_Support(ps), BAPolicy(ps), TID(ps), v)

DelbaInitiator(dps) == dps % 2
DelbaTID(dps) == (dps \div 4) % 16
MkDelbaParamSet(initiator, tid) == (initiator % 2) + 4 * (tid % 16)

FragNum(sc) == sc % 16
SeqNum(sc) == (sc \div 16) % SeqModulus
SetSeqNum(sc, n) == FragNum(sc) + 16 * (n % SeqModulus)

\* ------------------------------------------------------------------------
\* BA_RECORD
\* ------------------------------------------------------------------------
BaRecord(valid, token, ps, timeout, ssc) ==
    [bValid |-> valid, DialogToken |-> token, BaParamSet |-> ps,
     BaTimeoutValue |-> timeout, BaStartSeqCtrl |-> ssc]

\* ResetBaEntry(): every field to its default; the timer is not touched.
ResetBaEntry(pBA) == BaRecord(FALSE, 0, 0, 0, 0)

\* BA records a peer encodes into an ADDBA request
PeerParamSets ==
    { MkBaParamSet(a, p, tid, b) :
        a \in PeerAmsdu, p \in {BA_POLICY_DELAYED, BA_POLICY_IMMEDIATE},
        tid \in TIDs, b \in PeerBufferSizes }
PeerReqRecords ==
    { [bValid |-> FALSE, DialogToken |-> tok, BaParamSet |-> ps,
       BaTimeoutValue |-> to, BaStartSeqCtrl |-> ssc] :
        tok \in PeerTokens, ps \in PeerParamSets, to \in PeerTimeouts,
        ssc \in PeerStartSeqs }

\* BA records a peer encodes into an ADDBA response, and its status codes
PeerRspRecords ==
    { [bValid |-> FALSE, DialogToken |-> tok, BaParamSet |-> ps,
       BaTimeoutValue |-> to, BaStartSeqCtrl |-> 0] :
        tok \in RspTokens \cup LateRspTokens, ps \in PeerParamSets,
        to \in PeerTimeouts }
PeerStatus == {ADDBA_STATUS_SUCCESS, ADDBA_STATUS_REFUSED}

\* the responses a peer sends: any record with status success; with another
\* status the parameter set and timeout it echoes are the smallest of the domain
PeerRspFrames ==
    { f \in PeerRspRecords \X PeerStatus :
        f[2] # ADDBA_STATUS_SUCCESS =>
            /\ BAPolicy(f[1].BaParamSet) = BA_POLICY_IMMEDIATE
            /\ f[1].BaTimeoutValue = 0 }

\* the frames that arrive cut short, one of each type
ShortReqRecord == CHOOSE r \in PeerReqRecords : TID(r.BaParamSet) \in OwnTIDs
ShortRspFrame ==
    CHOOSE f \in PeerRspFrames :
        TID(f[1].BaParamSet) \in OwnTIDs /\ f[1].DialogToken \in RspTokens

\* ------------------------------------------------------------------------
\* Frame codec
\* ------------------------------------------------------------------------
LE16(v) == << v % 256, (v \div 256) % 256 >>
GetLE16(b, i) == b[i] + 256 * b[i + 1]

MkFrame(a1, a2, body) ==
    [addr1 |-> a1, addr2 |-> a2, addr3 |-> Bssid,
     frame_ctl |-> IEEE80211_STYPE_MANAGE_ACT, payload |-> body]

NoFrame == MkFrame("none", "none", << >>)

\* Fault variant: the length is taken one byte short.
FrameLen_OneShort(skb) == HdrLen + Len(skb.payload) - 1

\* skb->len
FrameLen(skb) == HdrLen + Len(skb.payload)

\* action-frame body of ieee80211_ADDBA(): the 9 bytes behind the header
AddbaBody(pBA, StatusCode, type) ==
    << ACT_CAT_BA, type, pBA.DialogToken >>
      \o (IF type = ACT_ADDBARSP THEN LE16(StatusCode) ELSE << >>)
      \o LE16(pBA.BaParamSet)
      \o LE16(pBA.BaTimeoutValue)
      \o (IF type = ACT_ADDBAREQ THEN LE16(pBA.BaStartSeqCtrl) ELSE << >>)

ieee80211_ADDBA(Dst, pBA, StatusCode, type) ==
    MkFrame(Dst, DevAddr, AddbaBody(pBA, StatusCode, type))

\* Fault variant: the initiator bit is left at the 0 of the memset.
DelbaBody_InitiatorUnset(pBA, TxRxSelect, ReasonCode) ==
    << ACT_CAT_BA, ACT_DELBA >>
      \o LE16(MkDelbaParamSet(0, TID(pBA.BaParamSet)))
      \o LE16(ReasonCode)

DelbaBody(pBA, TxRxSelect, ReasonCode) ==
    << ACT_CAT_BA, ACT_DELBA >>
      \o LE16(MkDelbaParamSet(IF TxRxSelect = TX_DIR THEN 1 ELSE 0,
                              TID(pBA.BaParamSet)))
      \o LE16(ReasonCode)

ieee80211_DELBA(dst, pBA, TxRxSelect, ReasonCode) ==
    MkFrame(dst, DevAddr, DelbaBody(pBA, TxRxSelect, ReasonCode))

\* A 16-bit read at byte offset off of the frame (0 = first header byte).
\* Inside the payload it is the two bytes there; past the end of the frame it
\* is whatever the receive buffer holds (oob).
ReadRaw16(skb, off, oob) ==
    IF off >= HdrLen /\ off + 2 <= FrameLen(skb)
    THEN GetLE16(skb.payload, off - HdrLen + 1)
    ELSE oob

\* fields of a received ADDBA request, at the offsets ieee80211_rx_ADDBAReq uses
ReqDialogToken(skb) == skb.payload[3]
ReqBaParamSet(skb) == GetLE16(skb.payload, 4)
ReqBaTimeoutVal(skb) == GetLE16(skb.payload, 6)
ReqStartSeqCtrlOffset == StartSeqCtrlHdrs * HdrLen
ReqBaStartSeqCtrl(skb, oob) == ReadRaw16(skb, ReqStartSeqCtrlOffset, oob)

\* fields of a received ADDBA response
RspDialogToken(skb) == skb.payload[3]
RspStatusCode(skb) == GetLE16(skb.payload, 4)
RspBaParamSet(skb) == GetLE16(skb.payload, 6)
RspBaTimeoutVal(skb) == GetLE16(skb.payload, 8)

\* DELBA parameter set of a received DELBA (payload[2..3])
DelbaParamSetOf(skb) == GetLE16(skb.payload, 3)

\* fields of frames this module sent, for reading the sent log
IsAddbaReq(f) == Len(f.payload) = AddbaBodyLen /\ f.payload[1] = ACT_CAT_BA /\ f.payload[2] = ACT_ADDBAREQ
IsAddbaRsp(f) == Len(f.payload) = AddbaBodyLen /\ f.payload[1] = ACT_CAT_BA /\ f.payload[2] = ACT_ADDBARSP
IsDelba(f) == Len(f.payload) = DelbaBodyLen /\ f.payload[1] = ACT_CAT_BA /\ f.payload[2] = ACT_DELBA
DelbaReason(f) == GetLE16(f.payload, 5)


\* ------------------------------------------------------------------------
\* State
\* ------------------------------------------------------------------------
VARIABLES
    txTs,      \* [Keys -> tx_ts_record]: the TX traffic streams and their BA records
    rxTs,      \* [Keys -> rx_ts_record]: the RX traffic streams
    armed,     \* [Timers -> BOOLEAN]: timer_pending() of each BA record's Timer
    lastCall,  \* [Timers -> [kind, Time]]: the last ActivateBAEntry (with its Time)
               \* or completed DeActivateBAEntry of each record (history)
    fresh,     \* the stream TsInitAddBA last set up (or found set up) an attempt
               \* on, while nothing but the response to it has been handled and
               \* no timer callback has taken a step since; else NoKey (history)
    pc,        \* [Ctxs -> label]: where each execution context stands
    op,        \* the frame/caller path's current call: arguments and locals
    sent,      \* [Ctxs -> Seq(frame)]: frames handed to softmac_mgmt_xmit by the
               \* context's current call
    nops       \* calls started so far

vars == << txTs, rxTs, armed, lastCall, fresh, pc, op, sent, nops >>

TxPend == "TxPend"
TxAdm == "TxAdm"
RxAdm == "RxAdm"
Timers == {TxPend, TxAdm, RxAdm} \X Keys
NoKey == << "nobody", 0 >>
Main == << "Main", NoKey >>
Ctxs == {Main} \cup Timers

\* the BA record a timer is embedded in
RecOf(t) ==
    CASE t[1] = TxPend -> txTs[t[2]].tx_pending_ba_record
      [] t[1] = TxAdm -> txTs[t[2]].tx_admitted_ba_record
      [] OTHER -> rxTs[t[2]].rx_admitted_ba_record

\* the key (peer, tid) a context works on
\* Fault variant: every timer callback resolves to the first stream.
KeyOf_FirstStream(c) ==
    IF c = Main THEN op.key ELSE CHOOSE k \in Peers \X OwnTIDs : TRUE

KeyOf(c) == IF c = Main THEN op.key ELSE c[2]

NoOp ==
    [name |-> "none", key |-> NoKey, rc |-> 0, out |-> "none", skb |-> NoFrame,
     enc |-> BaRecord(FALSE, 0, 0, 0, 0), DialogToken |-> 0, StatusCode |-> 0,
     BaParamSet |-> 0, BaTimeoutVal |-> 0, BaStartSeqCtrl |-> 0,
     Policy |-> 0, bOverwritePending |-> FALSE, ReasonCode |-> 0,
     dir |-> "none", halfN |-> FALSE, tokenMatch |-> FALSE,
     qos |-> FALSE, ht |-> FALSE, ampdu |-> FALSE, canAdd |-> FALSE,
     bSendDELBA |-> FALSE,
     preTx |-> << >>, preRx |-> << >>, preArmed |-> << >>]

NewTxTs(e) ==
    [exists |-> e,
     tx_pending_ba_record |-> BaRecord(FALSE, 0, 0, 0, 0),
     tx_admitted_ba_record |-> BaRecord(FALSE, 0, 0, 0, 0),
     using_ba |-> FALSE, add_ba_req_in_progress |-> FALSE,
     add_ba_req_delayed |-> FALSE, tx_cur_seq |-> 0]

NewRxTs(e) ==
    [exists |-> e, rx_admitted_ba_record |-> BaRecord(FALSE, 0, 0, 0, 0)]

\* After construction: the TX streams the transmit path has set up exist with
\* reset BA records, no RX stream exists yet, no timer is pending.
Init ==
    /\ \E ex \in SUBSET (Peers \X OwnTIDs) : txTs = [k \in Keys |-> NewTxTs(k \in ex)]
    /\ rxTs = [k \in Keys |-> NewRxTs(FALSE)]
    /\ armed = [t \in Timers |-> FALSE]
    /\ lastCall = [t \in Timers |-> [kind |-> "none", Time |-> 0]]
    /\ fresh = NoKey
    /\ pc = [c \in Ctxs |-> IF c = Main THEN "idle" ELSE "none"]
    /\ op = NoOp
    /\ sent = [c \in Ctxs |-> << >>]
    /\ nops = 0

\* A context stands at the instant its function returns.
Observing == \E c \in Ctxs : pc[c] \in {"ret", "cbret"}

\* no operation and no callback in progress
Quiescent == pc[Main] = "idle" /\ \A t \in Timers : pc[t] = "none"

\* ------------------------------------------------------------------------
\* BA record lifecycle primitives
\* ------------------------------------------------------------------------
\* Fault variants of the primitives below; the properties at the end of the
\* module are expected to tell each of them from the code.
\*   an activation that leaves bValid as it was
del_timer_Skipped(a, t) == a

ActivateValid_Skipped(pBA) == pBA
\*   an activation that arms the timer whatever Time is
ActivateBAEntry_Unconditional(a, t, Time) == [a EXCEPT ![t] = TRUE]
\*   del_timer() in place of del_timer_sync(): no wait for a running callback
TimerSyncReady_NoWait(c, t) == TRUE

\* ActivateBAEntry(), line 21
ActivateValid(pBA) == [pBA EXCEPT !.bValid = TRUE]

\* ActivateBAEntry(), lines 22-23: mod_timer() when Time is nonzero
ActivateBAEntry(a, t, Time) == IF Time # 0 THEN [a EXCEPT ![t] = TRUE] ELSE a

\* Fault variant: a deactivation that flips bValid.
DeActivateValid_Toggles(pBA) == [pBA EXCEPT !.bValid = ~@]

\* Fault variant: a deactivation that leaves bValid as it was.
DeActivateValid_Skipped(pBA) == pBA

\* DeActivateBAEntry(), line 33
DeActivateValid(pBA) == [pBA EXCEPT !.bValid = FALSE]

\* del_timer_sync() may return: the timer's callback is not running.  Called
\* from the callback of that very timer it never returns.
TimerSyncReady(c, t) == c # t /\ pc[t] = "none"

\* the timer taken off the pending list
del_timer(a, t) == [a EXCEPT ![t] = FALSE]

\* DeActivateBAEntry(), lines 31-35, as one call that returns: the record and
\* the pending-timer list after it, from the record and the list before it
DeActivateBAEntry(pBA, a, t) ==
    [ba |-> DeActivateValid(pBA), timers |-> del_timer(a, t)]

Activated(lc, t, Time) == [lc EXCEPT ![t] = [kind |-> "activate", Time |-> Time]]
DeActivated(lc, t) == [lc EXCEPT ![t].kind = "deactivate"]

\* DeActivateBAEntry(), line 34: del_timer_sync(&pBA->Timer) by context c
del_timer_sync(c, t) ==
    /\ TimerSyncReady(c, t)
    /\ armed' = del_timer(armed, t)
    /\ lastCall' = DeActivated(lastCall, t)

\* a step of a timer callback ends the "immediately after TsInitAddBA" window
Touch(c) == IF c = Main THEN UNCHANGED fresh ELSE fresh' = NoKey

\* the frame/caller path may start a call
CanStart == pc[Main] = "idle" /\ ~Observing /\ nops < MaxOps

StartOp(o) ==
    /\ CanStart
    /\ nops' = nops + 1
    /\ op' = [o EXCEPT !.preTx = txTs, !.preRx = rxTs, !.preArmed = armed]
    /\ fresh' = CASE o.name = "TsInitAddBA" /\ o.out = "noop" -> o.key
                  [] o.name = "ieee80211_rx_ADDBARsp" /\ o.key = fresh -> fresh
                  [] OTHER -> NoKey

Goto(c, l) == pc' = [pc EXCEPT ![c] = l]

Xmit(c, f) == sent' = [sent EXCEPT ![c] = Append(@, f)]

At(c, l) == pc[c] = l /\ ~Observing

PendingOf(k) == txTs[k].tx_pending_ba_record
AdmittedOf(k) == txTs[k].tx_admitted_ba_record
RxAdmittedOf(k) == rxTs[k].rx_admitted_ba_record

\* ------------------------------------------------------------------------
\* TsInitAddBA(ieee, pTS, Policy, bOverwritePending)
\* ------------------------------------------------------------------------
\* lines 626-633: the "Pending" parameter set of a new attempt
TsInitAddBA_Fill_KeepPolicy(pBA, ts, tid, Policy) ==
    [pBA EXCEPT
       !.DialogToken = (@ + 1) % U8,
       !.BaParamSet = SetBufferSize(SetTID(SetAMSDU(@, 0), tid), FullBufferSize),
       !.BaTimeoutValue = 0,
       !.BaStartSeqCtrl = SetSeqNum(@, (ts.tx_cur_seq + SeqAdvance) % SeqModulus)]

\* Fault variant: the dialog token of the earlier attempt is used again.
TsInitAddBA_Fill_KeepToken(pBA, ts, tid, Policy) ==
    [pBA EXCEPT
       !.BaParamSet = SetBufferSize(SetTID(SetBAPolicy(SetAMSDU(@, 0), Policy), tid),
                                    FullBufferSize),
       !.BaTimeoutValue = 0,
       !.BaStartSeqCtrl = SetSeqNum(@, (ts.tx_cur_seq + SeqAdvance) % SeqModulus)]

TsInitAddBA_Fill(pBA, ts, tid, Policy) ==
    [pBA EXCEPT
       !.DialogToken = (@ + 1) % U8,
       !.BaParamSet = SetBufferSize(SetTID(SetBAPolicy(SetAMSDU(@, 0), Policy), tid),
                                    FullBufferSize),
       !.BaTimeoutValue = 0,
       !.BaStartSeqCtrl = SetSeqNum(@, (ts.tx_cur_seq + SeqAdvance) % SeqModulus)]

TsInitAddBA_NoOp_Never(pBA, bOverwritePending) == FALSE

\* lines 620-621: nothing to do
TsInitAddBA_NoOp(pBA, bOverwritePending) == pBA.bValid /\ ~bOverwritePending

\* lines 618-624 up to bValid = false of DeActivateBAEntry.  halfN is what
\* GetHalfNmodeSupportByAPsHandler() would answer at the call; TsInitAddBA
\* never asks, so it is recorded and decides nothing.
TsInitAddBA_Begin(k, Policy, bOverwritePending, halfN) ==
    /\ CanStart
    /\ txTs[k].exists
    /\ StartOp([NoOp EXCEPT !.name = "TsInitAddBA", !.key = k, !.Policy = Policy,
                            !.bOverwritePending = bOverwritePending,
                            !.halfN = halfN,
                            !.out = IF TsInitAddBA_NoOp(PendingOf(k), bOverwritePending)
                                    THEN "noop" ELSE "setup"])
    /\ IF TsInitAddBA_NoOp(PendingOf(k), bOverwritePending)
       THEN /\ Goto(Main, "ret")
            /\ UNCHANGED txTs
       ELSE /\ txTs' = [txTs EXCEPT ![k].tx_pending_ba_record = DeActivateValid(@)]
            /\ Goto(Main, "init_sync")
    /\ UNCHANGED << rxTs, armed, lastCall, sent >>

\* line 624 del_timer_sync, lines 626-633, line 635 up to bValid = true
TsInitAddBA_Sync ==
    /\ At(Main, "init_sync")
    /\ op.name = "TsInitAddBA"
    /\ TimerSyncReady(Main, << TxPend, op.key >>)
    /\ armed' = del_timer(armed, << TxPend, op.key >>)
    /\ txTs' = [txTs EXCEPT ![op.key].tx_pending_ba_record =
                   ActivateValid(TsInitAddBA_Fill(@, txTs[op.key], op.key[2], op.Policy))]
    /\ lastCall' = Activated(lastCall, << TxPend, op.key >>, BA_SETUP_TIMEOUT)
    /\ fresh' = op.key
    /\ Goto(Main, "init_arm")
    /\ UNCHANGED << rxTs, op, sent, nops >>

\* line 635 mod_timer, line 637 ieee80211_send_ADDBAReq
TsInitAddBA_Arm ==
    /\ At(Main, "init_arm")
    /\ armed' = ActivateBAEntry(armed, << TxPend, op.key >>, BA_SETUP_TIMEOUT)
    /\ Xmit(Main, ieee80211_ADDBA(op.key[1], PendingOf(op.key), 0, ACT_ADDBAREQ))
    /\ lastCall' = Activated(lastCall, << TxPend, op.key >>, BA_SETUP_TIMEOUT)
    /\ Goto(Main, "ret")
    /\ UNCHANGED << txTs, rxTs, fresh, op, nops >>

\* ------------------------------------------------------------------------
\* Received frames
\* ------------------------------------------------------------------------
\* A frame as the peer src puts it on the air, cut short when trunc.
Inbound(src, body, trunc) ==
    MkFrame(DevAddr, src, IF trunc THEN SubSeq(body, 1, Len(body) - 1) ELSE body)

\* GetTs(ieee, &pTS, Addr, TID, TxRxSelect, bAddNewTs) of the traffic-stream
\* table: an existing stream is found; a missing one is set up only when
\* bAddNewTs and the table has a free entry (canAdd).
GetTs(ts, k, bAddNewTs, canAdd) == ts[k].exists \/ (bAddNewTs /\ canAdd)

\* ------------------------------------------------------------------------
\* ieee80211_rx_ADDBAReq(ieee, skb)
\* ------------------------------------------------------------------------
\* Fault variant: the transient record keeps the policy bit it received.
ADDBAReq_FailRecord_KeepsPolicy(o) ==
    BaRecord(FALSE, o.DialogToken, o.BaParamSet, o.BaTimeoutVal, 0)

\* OnADDBAReq_Fail, lines 400-409: the transient BA record of the response
ADDBAReq_FailRecord(o) ==
    BaRecord(FALSE, o.DialogToken,
             SetBAPolicy(o.BaParamSet, BA_POLICY_IMMEDIATE), o.BaTimeoutVal, 0)

\* lines 385-393: the admitted record of an accepted request
ADDBAReq_Admit(pBA, o) ==
    [pBA EXCEPT
       !.DialogToken = o.DialogToken,
       !.BaParamSet = SetBufferSize(o.BaParamSet,
                        IF o.halfN THEN HalfNBufferSize ELSE FullBufferSize),
       !.BaTimeoutValue = o.BaTimeoutVal,
       !.BaStartSeqCtrl = o.BaStartSeqCtrl]

\* lines 330-384 (up to bValid = false of DeActivateBAEntry) and 400-409.
\* Inputs: the frame (src, enc, trunc) and, where the code reads them, the
\* link's capabilities (qos, ht), whether the stream table can add a stream
\* (canAdd), half-N mode (halfN) and the bytes *pBaStartSeqCtrl points at (oob).
ieee80211_rx_ADDBAReq_Parse(skb, enc) ==
    [NoOp EXCEPT !.name = "ieee80211_rx_ADDBAReq", !.skb = skb, !.enc = enc,
                 !.key = << skb.addr2, TID(ReqBaParamSet(skb)) >>,
                 !.DialogToken = ReqDialogToken(skb),
                 !.BaParamSet = ReqBaParamSet(skb),
                 !.BaTimeoutVal = ReqBaTimeoutVal(skb)]

\* Fault variants of OnADDBAReq_Fail: every rejection answered "refused";
\* the stream looked up and set up before the rejection.
ieee80211_rx_ADDBAReq_Fail_Refused(o, rc, why, ts) ==
    /\ StartOp([o EXCEPT !.StatusCode = ADDBA_STATUS_REFUSED, !.out = why])
    /\ Xmit(Main, ieee80211_ADDBA(o.skb.addr2, ADDBAReq_FailRecord(o),
                                  ADDBA_STATUS_REFUSED, ACT_ADDBARSP))
    /\ rxTs' = ts
    /\ Goto(Main, "ret")

ieee80211_rx_ADDBAReq_Fail_GetTsFirst(o, rc, why, ts) ==
    /\ StartOp([o EXCEPT !.StatusCode = rc, !.out = why])
    /\ Xmit(Main, ieee80211_ADDBA(o.skb.addr2, ADDBAReq_FailRecord(o), rc, ACT_ADDBARSP))
    /\ rxTs' = [ts EXCEPT ![o.key].exists = TRUE]
    /\ Goto(Main, "ret")

\* OnADDBAReq_Fail, lines 400-409: one ADDBA response with status rc
ieee80211_rx_ADDBAReq_Fail(o, rc, why, ts) ==
    /\ StartOp([o EXCEPT !.StatusCode = rc, !.out = why])
    /\ Xmit(Main, ieee80211_ADDBA(o.skb.addr2, ADDBAReq_FailRecord(o), rc, ACT_ADDBARSP))
    /\ rxTs' = ts
    /\ Goto(Main, "ret")

ieee80211_rx_ADDBAReq_Begin(src, enc, trunc) ==
    /\ CanStart
    /\ \E skb \in {Inbound(src, AddbaBody(enc, 0, ACT_ADDBAREQ), trunc)} :
           /\ IF FrameLen(skb) < HdrLen + AddbaBodyLen
              THEN /\ StartOp([NoOp EXCEPT !.name = "ieee80211_rx_ADDBAReq", !.skb = skb,
                                           !.enc = enc, !.rc = -1, !.out = "short"])
                   /\ Goto(Main, "ret")
                   /\ UNCHANGED << rxTs, sent >>
              ELSE \E o \in {ieee80211_rx_ADDBAReq_Parse(skb, enc)} :
                   \E off \in LinkStates :
                   \E qos \in {off # "qos"}, ht \in {off # "ht"} :
                   IF ~qos \/ ~ht
                   THEN ieee80211_rx_ADDBAReq_Fail([o EXCEPT !.qos = qos, !.ht = ht],
                                                   ADDBA_STATUS_REFUSED, "capability", rxTs)
                   ELSE \E canAdd \in BOOLEAN :
                        \E oc \in {[o EXCEPT !.qos = qos, !.ht = ht, !.canAdd = canAdd]} :
                        IF ~GetTs(rxTs, o.key, TRUE, canAdd)
                        THEN ieee80211_rx_ADDBAReq_Fail(oc, ADDBA_STATUS_REFUSED, "no_ts", rxTs)
                        ELSE IF BAPolicy(o.BaParamSet) = BA_POLICY_DELAYED
                        THEN ieee80211_rx_ADDBAReq_Fail(oc, ADDBA_STATUS_INVALID_PARAM, "policy",
                                                        [rxTs EXCEPT ![o.key].exists = TRUE])
                        ELSE \E halfN \in BOOLEAN, oob \in OobVals :
                             /\ StartOp([oc EXCEPT !.out = "accept", !.halfN = halfN,
                                           !.BaStartSeqCtrl = ReqBaStartSeqCtrl(skb, oob)])
                             /\ rxTs' = [rxTs EXCEPT ![o.key].exists = TRUE,
                                            ![o.key].rx_admitted_ba_record = DeActivateValid(@)]
                             /\ Goto(Main, "req_sync")
                             /\ UNCHANGED sent
           /\ UNCHANGED << txTs, armed, lastCall >>

\* Fault variant: the request is admitted and no response is sent.
ieee80211_rx_ADDBAReq_Admit_Silent ==
    LET k == op.key
        t == << RxAdm, k >>
        pBA == ActivateValid(ADDBAReq_Admit(RxAdmittedOf(k), op))
    IN
    /\ At(Main, "req_sync")
    /\ TimerSyncReady(Main, t)
    /\ rxTs' = [rxTs EXCEPT ![k].rx_admitted_ba_record = pBA]
    /\ armed' = ActivateBAEntry(del_timer(armed, t), t, pBA.BaTimeoutValue)
    /\ lastCall' = Activated(lastCall, t, pBA.BaTimeoutValue)
    /\ Goto(Main, "ret")
    /\ UNCHANGED << txTs, fresh, op, nops, sent >>

\* line 384 del_timer_sync, lines 385-395
ieee80211_rx_ADDBAReq_Admit ==
    LET k == op.key
        t == << RxAdm, k >>
        pBA == ActivateValid(ADDBAReq_Admit(RxAdmittedOf(k), op))
    IN
    /\ At(Main, "req_sync")
    /\ TimerSyncReady(Main, t)
    /\ rxTs' = [rxTs EXCEPT ![k].rx_admitted_ba_record = pBA]
    /\ armed' = ActivateBAEntry(del_timer(armed, t), t, pBA.BaTimeoutValue)
    /\ lastCall' = Activated(lastCall, t, pBA.BaTimeoutValue)
    /\ Xmit(Main, ieee80211_ADDBA(op.skb.addr2, pBA, ADDBA_STATUS_SUCCESS, ACT_ADDBARSP))
    /\ Goto(Main, "ret")
    /\ UNCHANGED << txTs, fresh, op, nops >>

\* ------------------------------------------------------------------------
\* ieee80211_rx_ADDBARsp(ieee, skb)
\* ------------------------------------------------------------------------
ieee80211_rx_ADDBARsp_Parse(skb, enc) ==
    [NoOp EXCEPT !.name = "ieee80211_rx_ADDBARsp", !.skb = skb, !.enc = enc,
                 !.key = << skb.addr2, TID(RspBaParamSet(skb)) >>,
                 !.DialogToken = RspDialogToken(skb),
                 !.StatusCode = RspStatusCode(skb),
                 !.BaParamSet = RspBaParamSet(skb),
                 !.BaTimeoutVal = RspBaTimeoutVal(skb)]

\* OnADDBARsp_Reject, lines 527-533: the transient BA record of the DELBA
ADDBARsp_RejectRecord(o) == BaRecord(FALSE, 0, o.BaParamSet, 0, 0)

\* Fault variant of OnADDBARsp_Reject: the reason code is always END_BA
ieee80211_rx_ADDBARsp_Reject_EndBA(o, ReasonCode) ==
    Xmit(Main, ieee80211_DELBA(o.skb.addr2, ADDBARsp_RejectRecord(o), TX_DIR,
                               DELBA_REASON_END_BA))

\* OnADDBARsp_Reject, lines 527-533: one DELBA with ReasonCode
ieee80211_rx_ADDBARsp_Reject(o, ReasonCode) ==
    Xmit(Main, ieee80211_DELBA(o.skb.addr2, ADDBARsp_RejectRecord(o), TX_DIR, ReasonCode))

\* Fault variant: the start sequence control is not taken from the pending
\* record.
ADDBARsp_Admit_KeepsStartSeq(pAdmittedBA, pPendingBA, o) ==
    [pAdmittedBA EXCEPT
       !.DialogToken = o.DialogToken,
       !.BaTimeoutValue = o.BaTimeoutVal,
       !.BaParamSet = o.BaParamSet]

\* lines 513-516: the admitted record takes the response's fields and the
\* pending record's start sequence control
ADDBARsp_Admit(pAdmittedBA, pPendingBA, o) ==
    [pAdmittedBA EXCEPT
       !.DialogToken = o.DialogToken,
       !.BaTimeoutValue = o.BaTimeoutVal,
       !.BaStartSeqCtrl = pPendingBA.BaStartSeqCtrl,
       !.BaParamSet = o.BaParamSet]

\* Fault variant of the capability check: A-MPDU is not looked at.
ADDBARsp_CapabilityReady_NoAmpdu(qos, ht, ampdu) == qos /\ ht

\* lines 445-447: QoS active, HT supported and A-MPDU enabled
ADDBARsp_CapabilityReady(qos, ht, ampdu) == qos /\ ht /\ ampdu

\* Fault variant of the duplicate check: no response is taken for a duplicate.
ADDBARsp_AlreadyAdmitted_Never(pAdmittedBA) == FALSE

\* line 481: the agreement is already set up
ADDBARsp_AlreadyAdmitted(pAdmittedBA) == pAdmittedBA.bValid

\* lines 429-491, up to bValid = false of DeActivateBAEntry(pPendingBA)
ieee80211_rx_ADDBARsp_Begin(src, enc, status, trunc) ==
    /\ CanStart
    /\ \E skb \in {Inbound(src, AddbaBody(enc, status, ACT_ADDBARSP), trunc)} :
           /\ IF FrameLen(skb) < HdrLen + AddbaBodyLen
              THEN /\ StartOp([NoOp EXCEPT !.name = "ieee80211_rx_ADDBARsp", !.skb = skb,
                                           !.enc = enc, !.rc = -1, !.out = "short"])
                   /\ Goto(Main, "ret")
                   /\ UNCHANGED << txTs, sent >>
              ELSE \E off \in LinkStates \cup {"ampdu"} :
                   \E qos \in {off # "qos"}, ht \in {off # "ht"}, ampdu \in {off # "ampdu"} :
                   \E o \in {[ieee80211_rx_ADDBARsp_Parse(skb, enc) EXCEPT
                                !.qos = qos, !.ht = ht, !.ampdu = ampdu]} :
                   IF ~ADDBARsp_CapabilityReady(qos, ht, ampdu)
                   THEN /\ StartOp([o EXCEPT !.out = "capability",
                                             !.ReasonCode = DELBA_REASON_UNKNOWN_BA])
                        /\ ieee80211_rx_ADDBARsp_Reject(o, DELBA_REASON_UNKNOWN_BA)
                        /\ Goto(Main, "ret")
                        /\ UNCHANGED txTs
                   ELSE IF ~GetTs(txTs, o.key, FALSE, FALSE)
                   THEN /\ StartOp([o EXCEPT !.out = "no_ts",
                                             !.ReasonCode = DELBA_REASON_UNKNOWN_BA])
                        /\ ieee80211_rx_ADDBARsp_Reject(o, DELBA_REASON_UNKNOWN_BA)
                        /\ Goto(Main, "ret")
                        /\ UNCHANGED txTs
                   ELSE \E m \in {PendingOf(o.key).bValid
                                  /\ o.DialogToken = PendingOf(o.key).DialogToken} :
                        IF ADDBARsp_AlreadyAdmitted(AdmittedOf(o.key))
                        THEN /\ StartOp([o EXCEPT !.out = "drop", !.rc = -1, !.tokenMatch = m])
                             /\ txTs' = [txTs EXCEPT ![o.key].add_ba_req_in_progress = FALSE]
                             /\ Goto(Main, "ret")
                             /\ UNCHANGED sent
                        ELSE IF ~m
                        THEN /\ StartOp([o EXCEPT !.out = "unknown",
                                                  !.ReasonCode = DELBA_REASON_UNKNOWN_BA])
                             /\ txTs' = [txTs EXCEPT ![o.key].add_ba_req_in_progress = FALSE]
                             /\ ieee80211_rx_ADDBARsp_Reject(o, DELBA_REASON_UNKNOWN_BA)
                             /\ Goto(Main, "ret")
                        ELSE /\ StartOp([o EXCEPT !.out = "matched", !.tokenMatch = TRUE])
                             /\ txTs' = [txTs EXCEPT ![o.key].add_ba_req_in_progress = FALSE,
                                            ![o.key].tx_pending_ba_record = DeActivateValid(@)]
                             /\ Goto(Main, "rsp_sync")
                             /\ UNCHANGED sent
           /\ UNCHANGED << rxTs, armed, lastCall >>

\* Fault variant of the policy check: a delayed-policy answer is taken.
ADDBARsp_PolicyRejected_Never(ps) == FALSE

\* Fault variant of the policy check: the immediate policy is the one refused.
ADDBARsp_PolicyRejected_Inverted(ps) == BAPolicy(ps) = BA_POLICY_IMMEDIATE

\* line 501: the peer answered with the delayed policy
ADDBARsp_PolicyRejected(ps) == BAPolicy(ps) = BA_POLICY_DELAYED

\* line 491 del_timer_sync(pending), lines 495-522 up to bValid = false of
\* DeActivateBAEntry(pAdmittedBA)
ieee80211_rx_ADDBARsp_Sync ==
    LET k == op.key IN
    /\ At(Main, "rsp_sync")
    /\ del_timer_sync(Main, << TxPend, k >>)
    /\ IF op.StatusCode = ADDBA_STATUS_SUCCESS
       THEN IF ADDBARsp_PolicyRejected(op.BaParamSet)
            THEN /\ txTs' = [txTs EXCEPT ![k].add_ba_req_delayed = TRUE,
                                ![k].tx_admitted_ba_record = DeActivateValid(@)]
                 /\ op' = [op EXCEPT !.out = "policy", !.ReasonCode = DELBA_REASON_END_BA]
                 /\ Goto(Main, "rsp_rej_sync")
            ELSE /\ txTs' = [txTs EXCEPT ![k].tx_admitted_ba_record =
                                DeActivateValid(ADDBARsp_Admit(@, PendingOf(k), op))]
                 /\ op' = [op EXCEPT !.out = "commit"]
                 /\ Goto(Main, "rsp_adm_sync")
       ELSE /\ txTs' = [txTs EXCEPT ![k].add_ba_req_delayed = TRUE]
            /\ op' = [op EXCEPT !.out = "status"]
            /\ Goto(Main, "ret")
    /\ UNCHANGED << rxTs, fresh, sent, nops >>

\* line 504 del_timer_sync(admitted), lines 505-506 and 527-533
ieee80211_rx_ADDBARsp_RejectSync ==
    /\ At(Main, "rsp_rej_sync")
    /\ del_timer_sync(Main, << TxAdm, op.key >>)
    /\ ieee80211_rx_ADDBARsp_Reject(op, DELBA_REASON_END_BA)
    /\ Goto(Main, "ret")
    /\ UNCHANGED << txTs, rxTs, fresh, op, nops >>

\* line 517 del_timer_sync(admitted), line 518 ActivateBAEntry
ieee80211_rx_ADDBARsp_Activate ==
    LET k == op.key
        t == << TxAdm, k >>
    IN
    /\ At(Main, "rsp_adm_sync")
    /\ TimerSyncReady(Main, t)
    /\ txTs' = [txTs EXCEPT ![k].tx_admitted_ba_record = ActivateValid(@)]
    /\ armed' = ActivateBAEntry(del_timer(armed, t), t, op.BaTimeoutVal)
    /\ lastCall' = Activated(lastCall, t, op.BaTimeoutVal)
    /\ Goto(Main, "ret")
    /\ UNCHANGED << rxTs, fresh, op, sent, nops >>

\* ------------------------------------------------------------------------
\* ieee80211_rx_DELBA(ieee, skb)
\* ------------------------------------------------------------------------
\* body of a DELBA as a peer sends it
PeerDelbaBody(initiator, tid, ReasonCode) ==
    << ACT_CAT_BA, ACT_DELBA >> \o LE16(MkDelbaParamSet(initiator, tid)) \o LE16(ReasonCode)

\* Fault variant of the capability check: HT is not looked at.
DELBA_CapabilityReady_NoHt(qos, ht) == qos

\* lines 557-558: QoS active and HT supported
DELBA_CapabilityReady(qos, ht) == qos /\ ht

\* lines 549-599: up to the call of RxTsDeleteBA / TxTsDeleteBA
ieee80211_rx_DELBA_Begin(src, initiator, tid, trunc) ==
    /\ CanStart
    /\ \E skb \in {Inbound(src, PeerDelbaBody(initiator, tid, DELBA_REASON_END_BA), trunc)} :
           /\ IF FrameLen(skb) < HdrLen + DelbaBodyLen
              THEN /\ StartOp([NoOp EXCEPT !.name = "ieee80211_rx_DELBA", !.skb = skb,
                                           !.rc = -1, !.out = "short"])
                   /\ Goto(Main, "ret")
                   /\ UNCHANGED txTs
              ELSE \E off \in LinkStates :
                   \E qos \in {off # "qos"}, ht \in {off # "ht"} :
                   \E o \in {[NoOp EXCEPT !.name = "ieee80211_rx_DELBA", !.skb = skb,
                                !.qos = qos, !.ht = ht,
                                !.key = << skb.addr2, DelbaTID(DelbaParamSetOf(skb)) >>,
                                !.dir = IF DelbaInitiator(DelbaParamSetOf(skb)) = 1
                                        THEN RX_DIR ELSE TX_DIR]} :
                   IF ~DELBA_CapabilityReady(qos, ht)
                   THEN /\ StartOp([o EXCEPT !.rc = -1, !.out = "capability"])
                        /\ Goto(Main, "ret")
                        /\ UNCHANGED txTs
                   ELSE IF o.dir = RX_DIR
                   THEN IF ~GetTs(rxTs, o.key, FALSE, FALSE)
                        THEN /\ StartOp([o EXCEPT !.rc = -1, !.out = "no_ts"])
                             /\ Goto(Main, "ret")
                             /\ UNCHANGED txTs
                        ELSE /\ StartOp([o EXCEPT !.out = "rx"])
                             /\ Goto(Main, "rxdel")
                             /\ UNCHANGED txTs
                   ELSE IF ~GetTs(txTs, o.key, FALSE, FALSE)
                        THEN /\ StartOp([o EXCEPT !.rc = -1, !.out = "no_ts"])
                             /\ Goto(Main, "ret")
                             /\ UNCHANGED txTs
                        ELSE /\ StartOp([o EXCEPT !.out = "tx"])
                             /\ txTs' = [txTs EXCEPT ![o.key].using_ba = FALSE,
                                            ![o.key].add_ba_req_in_progress = FALSE,
                                            ![o.key].add_ba_req_delayed = FALSE]
                             /\ Goto(Main, "txdel_pend")
           /\ UNCHANGED << rxTs, armed, lastCall, sent >>

\* ------------------------------------------------------------------------
\* TxTsDeleteBA() / RxTsDeleteBA(), run by context c on the stream KeyOf(c)
\* ------------------------------------------------------------------------
NoteSend(c) == IF c = Main THEN op' = [op EXCEPT !.bSendDELBA = TRUE] ELSE UNCHANGED op

\* What the caller of TxTsDeleteBA() does once it has returned:
\*   ieee80211_rx_DELBA   line 604: return 0
\*   TsInitDelBA          lines 646-652: DELBA(END_BA) if a record was valid
\*   TxBaInactTimeout     lines 684-689: DELBA(TIMEOUT), always
AfterTxTsDeleteBA(c, bSend) ==
    LET k == KeyOf(c) IN
    IF c # Main
    THEN /\ Xmit(c, ieee80211_DELBA(k[1], AdmittedOf(k), TX_DIR, DELBA_REASON_TIMEOUT))
         /\ Goto(c, "cbret")
    ELSE /\ Goto(c, "ret")
         /\ IF op.name = "TsInitDelBA" /\ bSend
            THEN Xmit(c, ieee80211_DELBA(k[1],
                          IF AdmittedOf(k).bValid THEN AdmittedOf(k) ELSE PendingOf(k),
                          TX_DIR, DELBA_REASON_END_BA))
            ELSE UNCHANGED sent

\* TxTsDeleteBA(), lines 50-53 up to bValid = false
TxTsDeleteBA_Pending(c) ==
    /\ At(c, "txdel_pend")
    /\ IF PendingOf(KeyOf(c)).bValid
       THEN /\ txTs' = [txTs EXCEPT ![KeyOf(c)].tx_pending_ba_record = DeActivateValid(@)]
            /\ NoteSend(c)
            /\ Goto(c, "txdel_pend_sync")
       ELSE /\ Goto(c, "txdel_adm")
            /\ UNCHANGED << txTs, op >>
    /\ Touch(c)
    /\ UNCHANGED << rxTs, armed, lastCall, sent, nops >>

\* line 51: del_timer_sync of the pending record's timer
TxTsDeleteBA_PendingSync(c) ==
    /\ At(c, "txdel_pend_sync")
    /\ del_timer_sync(c, << TxPend, KeyOf(c) >>)
    /\ Goto(c, "txdel_adm")
    /\ Touch(c)
    /\ UNCHANGED << txTs, rxTs, op, sent, nops >>

\* lines 56-59 up to bValid = false; line 61 when the record is not valid
TxTsDeleteBA_Admitted(c) ==
    /\ At(c, "txdel_adm")
    /\ IF AdmittedOf(KeyOf(c)).bValid
       THEN /\ txTs' = [txTs EXCEPT ![KeyOf(c)].tx_admitted_ba_record = DeActivateValid(@)]
            /\ NoteSend(c)
            /\ Goto(c, "txdel_adm_sync")
            /\ UNCHANGED sent
       ELSE /\ AfterTxTsDeleteBA(c, c = Main /\ op.bSendDELBA)
            /\ UNCHANGED << txTs, op >>
    /\ Touch(c)
    /\ UNCHANGED << rxTs, armed, lastCall, nops >>

\* line 57: del_timer_sync of the admitted record's timer, then line 61
TxTsDeleteBA_AdmittedSync(c) ==
    /\ At(c, "txdel_adm_sync")
    /\ del_timer_sync(c, << TxAdm, KeyOf(c) >>)
    /\ AfterTxTsDeleteBA(c, TRUE)
    /\ Touch(c)
    /\ UNCHANGED << txTs, rxTs, op, nops >>

\* What the caller of RxTsDeleteBA() does once it has returned:
\*   ieee80211_rx_DELBA   line 604: return 0
\*   TsInitDelBA          lines 655-661: DELBA(END_BA) if the record was valid
\*   RxBaInactTimeout     lines 698-703: DELBA(TIMEOUT), always
AfterRxTsDeleteBA(c, bSend) ==
    LET k == KeyOf(c) IN
    IF c # Main
    THEN /\ Xmit(c, ieee80211_DELBA(k[1], RxAdmittedOf(k), RX_DIR, DELBA_REASON_TIMEOUT))
         /\ Goto(c, "cbret")
    ELSE /\ Goto(c, "ret")
         /\ IF op.name = "TsInitDelBA" /\ bSend
            THEN Xmit(c, ieee80211_DELBA(k[1], RxAdmittedOf(k), RX_DIR, DELBA_REASON_END_BA))
            ELSE UNCHANGED sent

\* RxTsDeleteBA(), lines 76-81 up to bValid = false
RxTsDeleteBA_Check(c) ==
    /\ At(c, "rxdel")
    /\ IF RxAdmittedOf(KeyOf(c)).bValid
       THEN /\ rxTs' = [rxTs EXCEPT ![KeyOf(c)].rx_admitted_ba_record = DeActivateValid(@)]
            /\ Goto(c, "rxdel_sync")
            /\ UNCHANGED sent
       ELSE /\ AfterRxTsDeleteBA(c, FALSE)
            /\ UNCHANGED rxTs
    /\ Touch(c)
    /\ UNCHANGED << txTs, armed, lastCall, op, nops >>

\* line 77: del_timer_sync of the rx admitted record's timer, then line 81
RxTsDeleteBA_Sync(c) ==
    /\ At(c, "rxdel_sync")
    /\ del_timer_sync(c, << RxAdm, KeyOf(c) >>)
    /\ AfterRxTsDeleteBA(c, TRUE)
    /\ Touch(c)
    /\ UNCHANGED << txTs, rxTs, op, nops >>

\* ------------------------------------------------------------------------
\* TsInitDelBA(ieee, pTsCommonInfo, TxRxSelect)
\* ------------------------------------------------------------------------
\* Fault variant: tearing a direction down marks the TX stream delayed.
TsInitDelBA_Begin_MarksDelayed(k, TxRxSelect) ==
    /\ CanStart
    /\ IF TxRxSelect = TX_DIR THEN txTs[k].exists ELSE rxTs[k].exists
    /\ StartOp([NoOp EXCEPT !.name = "TsInitDelBA", !.key = k, !.dir = TxRxSelect])
    /\ Goto(Main, IF TxRxSelect = TX_DIR THEN "txdel_pend" ELSE "rxdel")
    /\ txTs' = [txTs EXCEPT ![k].add_ba_req_delayed = TRUE]
    /\ UNCHANGED << rxTs, armed, lastCall, sent >>

\* lines 640-645 and 653-654: the direction is selected
TsInitDelBA_Begin(k, TxRxSelect) ==
    /\ CanStart
    /\ IF TxRxSelect = TX_DIR THEN txTs[k].exists ELSE rxTs[k].exists
    /\ StartOp([NoOp EXCEPT !.name = "TsInitDelBA", !.key = k, !.dir = TxRxSelect])
    /\ Goto(Main, IF TxRxSelect = TX_DIR THEN "txdel_pend" ELSE "rxdel")
    /\ UNCHANGED << txTs, rxTs, armed, lastCall, sent >>

\* ------------------------------------------------------------------------
\* ResetBaEntry(pBA), called by the traffic-stream table on a stream's record
\* ------------------------------------------------------------------------
ResetBaEntry_Call(t) ==
    /\ CanStart
    /\ IF t[1] = RxAdm THEN rxTs[t[2]].exists ELSE txTs[t[2]].exists
    /\ StartOp([NoOp EXCEPT !.name = "ResetBaEntry", !.key = t[2], !.dir = t[1]])
    /\ CASE t[1] = TxPend ->
              /\ txTs' = [txTs EXCEPT ![t[2]].tx_pending_ba_record = ResetBaEntry(@)]
              /\ UNCHANGED rxTs
         [] t[1] = TxAdm ->
              /\ txTs' = [txTs EXCEPT ![t[2]].tx_admitted_ba_record = ResetBaEntry(@)]
              /\ UNCHANGED rxTs
         [] OTHER ->
              /\ rxTs' = [rxTs EXCEPT ![t[2]].rx_admitted_ba_record = ResetBaEntry(@)]
              /\ UNCHANGED txTs
    /\ Goto(Main, "ret")
    /\ UNCHANGED << armed, lastCall, sent >>

\* ------------------------------------------------------------------------
\* The transmit path (outside this file) owns using_ba, add_ba_req_in_progress
\* and tx_cur_seq of a TX stream and advances them as it sends data frames.
\* ------------------------------------------------------------------------
TxPathActivity(k, u, p, s) ==
    /\ CanStart
    /\ txTs[k].exists
    /\ nops' = nops + 1
    /\ txTs' = [txTs EXCEPT ![k].using_ba = u, ![k].add_ba_req_in_progress = p,
                            ![k].tx_cur_seq = s]
    /\ txTs' # txTs
    /\ fresh' = NoKey
    /\ UNCHANGED << rxTs, armed, lastCall, pc, op, sent >>

\* ------------------------------------------------------------------------
\* Returning
\* ------------------------------------------------------------------------
Return ==
    /\ pc[Main] = "ret"
    /\ pc' = [pc EXCEPT ![Main] = "idle"]
    /\ op' = NoOp
    /\ sent' = [sent EXCEPT ![Main] = << >>]
    /\ fresh' = IF op.name = "TsInitAddBA" THEN fresh ELSE NoKey
    /\ UNCHANGED << txTs, rxTs, armed, lastCall, nops >>

CbReturn(t) ==
    /\ pc[t] = "cbret"
    /\ pc' = [pc EXCEPT ![t] = "none"]
    /\ sent' = [sent EXCEPT ![t] = << >>]
    /\ fresh' = NoKey
    /\ UNCHANGED << txTs, rxTs, armed, lastCall, op, nops >>

\* ------------------------------------------------------------------------
\* Timer service: an armed timer whose callback is not running expires
\* ------------------------------------------------------------------------
CallbackEntry(t) ==
    CASE t[1] = TxPend -> "setup_body"
      [] t[1] = TxAdm -> "txdel_pend"
      [] OTHER -> "rxdel"

Fire(t) ==
    /\ armed[t]
    /\ At(t, "none")
    /\ armed' = del_timer(armed, t)
    /\ Goto(t, CallbackEntry(t))
    /\ fresh' = NoKey
    /\ UNCHANGED << txTs, rxTs, lastCall, op, sent, nops >>

\* Fault variant: the callback also drops the admitted agreement.
BaSetupTimeOut_DropsAdmitted(t) ==
    /\ t[1] = TxPend
    /\ At(t, "setup_body")
    /\ txTs' = [txTs EXCEPT ![t[2]].add_ba_req_in_progress = FALSE,
                            ![t[2]].add_ba_req_delayed = TRUE,
                            ![t[2]].tx_pending_ba_record.bValid = FALSE,
                            ![t[2]].tx_admitted_ba_record.bValid = FALSE]
    /\ Goto(t, "cbret")
    /\ fresh' = NoKey
    /\ UNCHANGED << rxTs, armed, lastCall, op, sent, nops >>

\* BaSetupTimeOut(), lines 670-677
BaSetupTimeOut(t) ==
    /\ t[1] = TxPend
    /\ At(t, "setup_body")
    /\ txTs' = [txTs EXCEPT ![t[2]].add_ba_req_in_progress = FALSE,
                            ![t[2]].add_ba_req_delayed = TRUE,
                            ![t[2]].tx_pending_ba_record.bValid = FALSE]
    /\ Goto(t, "cbret")
    /\ fresh' = NoKey
    /\ UNCHANGED << rxTs, armed, lastCall, op, sent, nops >>

\* ------------------------------------------------------------------------
\* The system
\* ------------------------------------------------------------------------
\* The n-th call or frame is for a stream with a TID in tids[n], the ADDBA
\* responses carry a dialog token of toks; the timer service runs every timer.
Step(tids, toks) ==
    \/ \E k \in Peers \X tids[nops], Policy \in {BA_POLICY_DELAYED, BA_POLICY_IMMEDIATE},
          bOverwritePending \in BOOLEAN, halfN \in BOOLEAN :
             TsInitAddBA_Begin(k, Policy, bOverwritePending, halfN)
    \/ TsInitAddBA_Sync
    \/ TsInitAddBA_Arm
    \/ \E c \in Ctxs : TxTsDeleteBA_Pending(c)
    \/ \E c \in Ctxs : TxTsDeleteBA_PendingSync(c)
    \/ \E c \in Ctxs : TxTsDeleteBA_Admitted(c)
    \/ \E c \in Ctxs : TxTsDeleteBA_AdmittedSync(c)
    \/ \E c \in Ctxs : RxTsDeleteBA_Check(c)
    \/ \E c \in Ctxs : RxTsDeleteBA_Sync(c)
    \/ \E k \in Peers \X tids[nops], d \in {TX_DIR, RX_DIR} : TsInitDelBA_Begin(k, d)
    \/ \E t \in {TxPend, TxAdm, RxAdm} \X (Peers \X tids[nops]) : ResetBaEntry_Call(t)
    \/ \E k \in Peers \X tids[nops], u \in BOOLEAN, p \in BOOLEAN, s \in SeqVals : TxPathActivity(k, u, p, s)
    \/ \E src \in Peers, enc \in PeerReqRecords, trunc \in BOOLEAN :
          /\ TID(enc.BaParamSet) \in tids[nops]
          /\ trunc => enc = ShortReqRecord
          /\ ieee80211_rx_ADDBAReq_Begin(src, enc, trunc)
    \/ ieee80211_rx_ADDBAReq_Admit
    \/ \E src \in Peers, f \in PeerRspFrames, trunc \in BOOLEAN :
          /\ TID(f[1].BaParamSet) \in tids[nops]
          /\ IF trunc THEN f = ShortRspFrame ELSE f[1].DialogToken \in toks
          /\ ieee80211_rx_ADDBARsp_Begin(src, f[1], f[2], trunc)
    \/ ieee80211_rx_ADDBARsp_Sync
    \/ ieee80211_rx_ADDBARsp_RejectSync
    \/ ieee80211_rx_ADDBARsp_Activate
    \/ \E src \in Peers, initiator \in {0, 1}, tid \in tids[nops], trunc \in BOOLEAN :
          ieee80211_rx_DELBA_Begin(src, initiator, tid, trunc)
    \/ Return
    \/ \E t \in Timers : CbReturn(t)
    \/ \E t \in Timers : Fire(t)
    \/ \E t \in Timers : BaSetupTimeOut(t)

\* every call is for the one stream
OwnStreamOnly == [n \in 0 .. MaxOps |-> OwnTIDs]

Next == Step(OwnStreamOnly, RspTokens)

Spec == Init /\ [][Next]_vars

\* The timer service runs a callback it has started until the callback
\* returns, and a call of the frame/caller path that has reached its return
\* returns.
CallbackStep(t) ==
    \/ BaSetupTimeOut(t)
    \/ TxTsDeleteBA_Pending(t)
    \/ TxTsDeleteBA_PendingSync(t)
    \/ TxTsDeleteBA_Admitted(t)
    \/ TxTsDeleteBA_AdmittedSync(t)
    \/ RxTsDeleteBA_Check(t)
    \/ RxTsDeleteBA_Sync(t)
    \/ CbReturn(t)

\* Two streams of one peer: the calls on the first stream come first, the
\* last call of the budget is made on either stream, and the timers of both
\* run throughout.
SecondStreamLast ==
    [n \in 0 .. MaxOps |-> IF n < MaxOps - 1 THEN OwnTIDs ELSE TIDs]

InitTwoStreams ==
    /\ txTs = [k \in Keys |-> NewTxTs(TRUE)]
    /\ rxTs = [k \in Keys |-> NewRxTs(FALSE)]
    /\ armed = [t \in Timers |-> FALSE]
    /\ lastCall = [t \in Timers |-> [kind |-> "none", Time |-> 0]]
    /\ fresh = NoKey
    /\ pc = [c \in Ctxs |-> IF c = Main THEN "idle" ELSE "none"]
    /\ op = NoOp
    /\ sent = [c \in Ctxs |-> << >>]
    /\ nops = 0

NextTwoStreams == Step(SecondStreamLast, RspTokens)

SpecTwoStreams == InitTwoStreams /\ [][NextTwoStreams]_vars

\* A stream late in its life: 254 attempts lie behind it, the last one either
\* ended by a DELBA of the peer or answered with success and no timeout, so
\* that its agreement stands.  The next attempts wrap the u8 dialog token.
LateToken == 254
LatePending(k) ==
    BaRecord(FALSE, LateToken,
             MkBaParamSet(0, BA_POLICY_IMMEDIATE, k[2], FullBufferSize), 0,
             SetSeqNum(0, SeqAdvance))
LateAdmitted(k) ==
    BaRecord(TRUE, LateToken,
             MkBaParamSet(1, BA_POLICY_IMMEDIATE, k[2], 64), 0,
             SetSeqNum(0, SeqAdvance))
LateTxTs(k, standing) ==
    [NewTxTs(TRUE) EXCEPT
       !.tx_pending_ba_record = LatePending(k),
       !.tx_admitted_ba_record = IF standing THEN LateAdmitted(k) ELSE @]

InitLate ==
    /\ \E standing \in BOOLEAN :
          /\ txTs = [k \in Keys |-> IF k[2] \in OwnTIDs THEN LateTxTs(k, standing)
                                    ELSE NewTxTs(FALSE)]
          /\ lastCall =
                [t \in Timers |->
                   CASE t[2][2] \in OwnTIDs /\ t[1] = TxPend ->
                          [kind |-> "deactivate", Time |-> BA_SETUP_TIMEOUT]
                     [] t[2][2] \in OwnTIDs /\ t[1] = TxAdm /\ standing ->
                          [kind |-> "activate", Time |-> 0]
                     [] OTHER -> [kind |-> "none", Time |-> 0]]
    /\ rxTs = [k \in Keys |-> NewRxTs(FALSE)]
    /\ armed = [t \in Timers |-> FALSE]
    /\ fresh = NoKey
    /\ pc = [c \in Ctxs |-> IF c = Main THEN "idle" ELSE "none"]
    /\ op = NoOp
    /\ sent = [c \in Ctxs |-> << >>]
    /\ nops = 0

NextLate == Step(OwnStreamOnly, LateRspTokens)

SpecLate == InitLate /\ [][NextLate]_vars

FairSpec ==
    /\ Spec
    /\ WF_vars(Return)
    /\ \A t \in Timers : WF_vars(CallbackStep(t))

\* A stream whose first attempt the peer answered with success and timeout
\* 100: the agreement stands and its inactivity timer is pending.
StandingTxTs(k) ==
    [NewTxTs(TRUE) EXCEPT
       !.tx_pending_ba_record =
           BaRecord(FALSE, 1, MkBaParamSet(0, BA_POLICY_IMMEDIATE, k[2], FullBufferSize),
                    0, SetSeqNum(0, SeqAdvance)),
       !.tx_admitted_ba_record =
           BaRecord(TRUE, 1, MkBaParamSet(1, BA_POLICY_IMMEDIATE, k[2], 64),
                    100, SetSeqNum(0, SeqAdvance))]

InitStanding ==
    /\ txTs = [k \in Keys |-> IF k[2] \in OwnTIDs THEN StandingTxTs(k) ELSE NewTxTs(FALSE)]
    /\ rxTs = [k \in Keys |-> NewRxTs(FALSE)]
    /\ armed = [t \in Timers |-> t[2][2] \in OwnTIDs /\ t[1] = TxAdm]
    /\ lastCall =
          [t \in Timers |->
             CASE t[2][2] \in OwnTIDs /\ t[1] = TxPend ->
                    [kind |-> "deactivate", Time |-> BA_SETUP_TIMEOUT]
               [] t[2][2] \in OwnTIDs /\ t[1] = TxAdm ->
                    [kind |-> "activate", Time |-> 100]
               [] OTHER -> [kind |-> "none", Time |-> 0]]
    /\ fresh = NoKey
    /\ pc = [c \in Ctxs |-> IF c = Main THEN "idle" ELSE "none"]
    /\ op = NoOp
    /\ sent = [c \in Ctxs |-> << >>]
    /\ nops = 1

\* The stream is new, or its agreement stands and one call fewer is left.
SpecStanding == (Init \/ InitStanding) /\ [][Next]_vars

\* The timer service also lets every pending timer expire.
FairStanding ==
    /\ SpecStanding
    /\ WF_vars(Return)
    /\ \A t \in Timers : WF_vars(CallbackStep(t))
    /\ \A t \in Timers : WF_vars(Fire(t))

\* ------------------------------------------------------------------------
\* Properties
\* ------------------------------------------------------------------------
\* The frame/caller path stands at the return of function n.
AtRet(n) == pc[Main] = "ret" /\ op.name = n

\* the frame was long enough to be parsed
Parsed == op.out # "short"

\* the timer whose del_timer_sync() context c stands at, if any
SyncTarget(c) ==
    CASE pc[c] \in {"init_sync", "rsp_sync", "txdel_pend_sync"} -> << TxPend, KeyOf(c) >>
      [] pc[c] \in {"rsp_rej_sync", "rsp_adm_sync", "txdel_adm_sync"} -> << TxAdm, KeyOf(c) >>
      [] pc[c] \in {"req_sync", "rxdel_sync"} -> << RxAdm, KeyOf(c) >>
      [] OTHER -> << "none", NoKey >>

\* exactly one frame was sent by the call, and it is a DELBA with this reason
SentOneDelba(ReasonCode) ==
    /\ Len(sent[Main]) = 1
    /\ IsDelba(sent[Main][1])
    /\ DelbaReason(sent[Main][1]) = ReasonCode

\* exactly one frame was sent by the call, an ADDBA response with this status
SentOneAddbaRsp(StatusCode) ==
    /\ Len(sent[Main]) = 1
    /\ IsAddbaRsp(sent[Main][1])
    /\ RspStatusCode(sent[Main][1]) = StatusCode

\* ---- C1 ----------------------------------------------------------------
\* A response with the pending record's dialog token, status success and
\* policy immediate, handled right after TsInitAddBA on a stream whose
\* admitted record was not valid, with QoS, HT and AMPDU active and no timer
\* callback step since the attempt was set up.
C1_Case ==
    /\ AtRet("ieee80211_rx_ADDBARsp")
    /\ Parsed
    /\ fresh = op.key
    /\ op.qos /\ op.ht /\ op.ampdu
    /\ ~op.preTx[op.key].tx_admitted_ba_record.bValid
    /\ op.DialogToken = op.preTx[op.key].tx_pending_ba_record.DialogToken
    /\ op.StatusCode = ADDBA_STATUS_SUCCESS
    /\ BAPolicy(op.BaParamSet) = BA_POLICY_IMMEDIATE

\* C1: TsInitAddBA followed immediately by a matching, successful,
\* immediate-policy ADDBA response ends with the admitted record valid and the
\* pending record invalid.
C1_InitiateThenResponseAdmits ==
    C1_Case => /\ AdmittedOf(op.key).bValid
               /\ ~PendingOf(op.key).bValid

C1_Witness ==
    /\ C1_Case
    /\ op.out = "commit"
    /\ AdmittedOf(op.key).bValid
    /\ ~PendingOf(op.key).bValid

\* ---- C2 ----------------------------------------------------------------
\* A parsed response for an existing TX stream whose dialog token differs
\* from the pending record's.
C2_Case ==
    /\ AtRet("ieee80211_rx_ADDBARsp")
    /\ Parsed
    /\ op.preTx[op.key].exists
    /\ op.DialogToken # op.preTx[op.key].tx_pending_ba_record.DialogToken

C2_Outcome ==
    /\ AdmittedOf(op.key) = op.preTx[op.key].tx_admitted_ba_record
    /\ SentOneDelba(DELBA_REASON_UNKNOWN_BA)

\* the response is one the handler drops: admitted record already valid while
\* QoS, HT and AMPDU are active
C2_Duplicate ==
    /\ op.preTx[op.key].tx_admitted_ba_record.bValid
    /\ op.qos /\ op.ht /\ op.ampdu

C3_Case ==
    /\ AtRet("ieee80211_rx_ADDBAReq")
    /\ Parsed
    /\ BAPolicy(op.enc.BaParamSet) = BA_POLICY_DELAYED

C3_Outcome ==
    /\ SentOneAddbaRsp(ADDBA_STATUS_INVALID_PARAM)
    /\ RxAdmittedOf(op.key) = op.preRx[op.key].rx_admitted_ba_record
    /\ armed[<< RxAdm, op.key >>] = op.preArmed[<< RxAdm, op.key >>]

\* the request got as far as the policy check: QoS and HT active and the RX
\* stream found or set up
C3_Admissible ==
    /\ op.qos /\ op.ht
    /\ op.preRx[op.key].exists \/ op.canAdd

C4_Case ==
    /\ AtRet("ieee80211_rx_ADDBAReq")
    /\ Parsed
    /\ ~op.qos \/ ~op.ht

C5_DelbaTearsDownTx ==
    AtRet("ieee80211_rx_DELBA") /\ op.out = "tx" =>
        /\ ~txTs[op.key].using_ba
        /\ ~txTs[op.key].add_ba_req_in_progress
        /\ ~txTs[op.key].add_ba_req_delayed
        /\ ~PendingOf(op.key).bValid
        /\ ~AdmittedOf(op.key).bValid
        /\ sent[Main] = << >>

\* ---- C6 ----------------------------------------------------------------
\* C6: in every quiescent state, a BA record that is not valid has no armed
\* timer.
C6_InvalidRecordHasNoArmedTimer ==
    Quiescent => \A t \in Timers : ~RecOf(t).bValid => ~armed[t]

C8_NoCallbackAfterDeactivate ==
    \A t \in Timers :
        lastCall[t].kind = "deactivate" => pc[t] = "none" /\ ~armed[t]

\* a record deactivated after an activation that armed its timer
C8_Witness ==
    \E t \in Timers :
        /\ lastCall[t].kind = "deactivate"
        /\ lastCall[t].Time # 0
        /\ pc[t] = "none"
        /\ ~armed[t]

\* ---- C9 ----------------------------------------------------------------
\* C9: no timer callback is ever at a del_timer_sync() of the timer it runs
\* from.
C9_NoCallbackSyncsItsOwnTimer ==
    \A t \in Timers : SyncTarget(t) # t

\* ---- C10 ---------------------------------------------------------------
\* C10: the fields ieee80211_rx_ADDBAReq decodes from a frame made by the
\* ADDBA request encoder are the encoded record's dialog token, parameter set,
\* timeout value and start sequence control.
C10_AddbaReqRoundTrip ==
    AtRet("ieee80211_rx_ADDBAReq") /\ op.out = "accept" =>
        /\ op.DialogToken = op.enc.DialogToken
        /\ op.BaParamSet = op.enc.BaParamSet
        /\ op.BaTimeoutVal = op.enc.BaTimeoutValue
        /\ op.BaStartSeqCtrl = op.enc.BaStartSeqCtrl



\* ---- C11 ---------------------------------------------------------------
\* the one frame the call sent is an ADDBA request to the stream's peer
SentOneAddbaReq ==
    /\ Len(sent[Main]) = 1
    /\ IsAddbaReq(sent[Main][1])
    /\ sent[Main][1].addr1 = op.key[1]

\* TsInitAddBA went past the no-op check while the link was not in half-N mode
C11_Case ==
    /\ AtRet("TsInitAddBA")
    /\ op.out = "setup"
    /\ ~op.halfN

C12_BufferSizeFor(halfN) == IF halfN THEN HalfNBufferSize ELSE FullBufferSize

\* C12: a TsInitAddBA that proceeds leaves the pending record, and the ADDBA
\* request it sends, with buffer size 1 when the link is in half-N mode and
\* 32 otherwise.
C12_BufferSizeFollowsHalfN ==
    (AtRet("TsInitAddBA") /\ op.out = "setup") =>
       /\ BufferSize(PendingOf(op.key).BaParamSet) = C12_BufferSizeFor(op.halfN)
       /\ SentOneAddbaReq
       /\ BufferSize(ReqBaParamSet(sent[Main][1])) = C12_BufferSizeFor(op.halfN)

\* ---- C13 ---------------------------------------------------------------
\* TsInitAddBA was called without bOverwritePending on a stream whose pending
\* record was valid
C13_Case ==
    /\ AtRet("TsInitAddBA")
    /\ op.preTx[op.key].tx_pending_ba_record.bValid
    /\ ~op.bOverwritePending

\* C13: TsInitAddBA on a valid pending record without bOverwritePending does
\* nothing: the pending record (token, parameters, start sequence, valid flag,
\* timer), the admitted record and the stream's flags are as before the call
\* and no frame is sent.
C13_ValidPendingWithoutOverwriteIsNoOp ==
    C13_Case =>
       /\ txTs[op.key] = op.preTx[op.key]
       /\ armed[<< TxPend, op.key >>] = op.preArmed[<< TxPend, op.key >>]
       /\ armed[<< TxAdm, op.key >>] = op.preArmed[<< TxAdm, op.key >>]
       /\ sent[Main] = << >>

\* the no-op on an attempt whose setup timer is still running
C13_Witness ==
    /\ C13_Case
    /\ op.out = "noop"
    /\ armed[<< TxPend, op.key >>]
    /\ PendingOf(op.key).DialogToken > 0
    /\ sent[Main] = << >>

\* ---- C14 ---------------------------------------------------------------
\* TsInitAddBA went past the no-op check: the pending record was not valid or
\* bOverwritePending was given
C14_Case ==
    /\ AtRet("TsInitAddBA")
    /\ ~(op.preTx[op.key].tx_pending_ba_record.bValid /\ ~op.bOverwritePending)

\* values of tx_cur_seq on both sides of the 12-bit wrap
C14_TxSeqs == (0 .. 3) \cup ((SeqModulus - 5) .. (SeqModulus - 1))

\* lines 626-633 give start sequence number (tx_cur_seq + 3) mod 4096 for
\* tx_cur_seq around the wrap, whatever the record held before
C14_StartSeqForEveryTxSeq ==
    \A s \in C14_TxSeqs :
       SeqNum(TsInitAddBA_Fill(op.preTx[op.key].tx_pending_ba_record,
                               [op.preTx[op.key] EXCEPT !.tx_cur_seq = s],
                               op.key[2], op.Policy).BaStartSeqCtrl)
          = (s + SeqAdvance) % SeqModulus

\* what the call leaves behind
C14_Outcome ==
    /\ PendingOf(op.key).bValid
    /\ armed[<< TxPend, op.key >>]
    /\ lastCall[<< TxPend, op.key >>] = [kind |-> "activate", Time |-> BA_SETUP_TIMEOUT]
    /\ PendingOf(op.key).BaTimeoutValue = 0
    /\ SeqNum(PendingOf(op.key).BaStartSeqCtrl)
          = (op.preTx[op.key].tx_cur_seq + SeqAdvance) % SeqModulus
    /\ SentOneAddbaReq
    /\ C14_StartSeqForEveryTxSeq

\* C14: a TsInitAddBA that proceeds ends with the pending record valid, its
\* timer armed with BA_SETUP_TIMEOUT, timeout value 0, start sequence number
\* (tx_cur_seq + 3) mod 4096 and exactly one ADDBA request sent to the
\* stream's peer; the timer of the attempt it overwrites is cancelled before
\* the record is activated again.
C14_ProceedingInitiateSetsUpPending ==
    /\ C14_Case => C14_Outcome
    /\ (pc[Main] = "init_arm" /\ op.name = "TsInitAddBA") =>
          ~armed[<< TxPend, op.key >>]

\* ---- C15 ---------------------------------------------------------------
\* ieee80211_rx_ADDBAReq returns from a frame of at least the minimum length
C15_Case ==
    /\ AtRet("ieee80211_rx_ADDBAReq")
    /\ Parsed

\* the three outcomes, read off the state the call leaves
C15_Accepted ==
    /\ SentOneAddbaRsp(ADDBA_STATUS_SUCCESS)
    /\ RxAdmittedOf(op.key).DialogToken = op.DialogToken

C15_Refused ==
    /\ SentOneAddbaRsp(ADDBA_STATUS_REFUSED)
    /\ rxTs[op.key].rx_admitted_ba_record = op.preRx[op.key].rx_admitted_ba_record

C15_InvalidParam ==
    /\ SentOneAddbaRsp(ADDBA_STATUS_INVALID_PARAM)
    /\ rxTs[op.key].rx_admitted_ba_record = op.preRx[op.key].rx_admitted_ba_record

C16_Case ==
    /\ AtRet("ieee80211_rx_ADDBAReq")
    /\ Parsed
    /\ op.qos /\ op.ht
    /\ GetTs(op.preRx, op.key, TRUE, op.canAdd)
    /\ BAPolicy(op.BaParamSet) = BA_POLICY_IMMEDIATE

\* the buffer size the handler forces
C16_ForcedBufferSize == IF op.halfN THEN HalfNBufferSize ELSE FullBufferSize

\* everything the claim says but the start sequence
C16_AdmittedButStartSeq ==
    /\ RxAdmittedOf(op.key).bValid
    /\ RxAdmittedOf(op.key).DialogToken = op.enc.DialogToken
    /\ RxAdmittedOf(op.key).BaTimeoutValue = op.enc.BaTimeoutValue
    /\ RxAdmittedOf(op.key).BaParamSet
          = SetBufferSize(op.enc.BaParamSet, C16_ForcedBufferSize)
    /\ armed[<< RxAdm, op.key >>] <=> (op.enc.BaTimeoutValue # 0)
    /\ lastCall[<< RxAdm, op.key >>]
          = [kind |-> "activate", Time |-> op.enc.BaTimeoutValue]
    /\ SentOneAddbaRsp(ADDBA_STATUS_SUCCESS)
    /\ RspDialogToken(sent[Main][1]) = op.enc.DialogToken
    /\ BufferSize(RspBaParamSet(sent[Main][1])) = C16_ForcedBufferSize

\* C16: an accepted ieee80211_rx_ADDBAReq ends with the RX admitted record
\* valid and holding the request's dialog token, timeout and start sequence
\* control and the request's parameter set with the buffer size forced to 1 in
\* half-N mode and 32 otherwise, its timer armed exactly when the timeout is
\* not 0 (the previous timer cancelled), and has sent one ADDBA response with
\* status success, that dialog token and the forced buffer size.
C16_AcceptedRequestIsAdmitted ==
    C16_Case =>
       /\ C16_AdmittedButStartSeq
       /\ RxAdmittedOf(op.key).BaStartSeqCtrl = op.enc.BaStartSeqCtrl

\* ---- C17 ---------------------------------------------------------------
\* ieee80211_rx_ADDBARsp returns from a response that came while QoS, HT or
\* A-MPDU was not active, or for which no TX stream exists
C17_Case ==
    /\ AtRet("ieee80211_rx_ADDBARsp")
    /\ Parsed
    /\ \/ ~op.qos
       \/ ~op.ht
       \/ ~op.ampdu
       \/ ~op.preTx[op.key].exists

C18_Case ==
    /\ AtRet("ieee80211_rx_ADDBARsp")
    /\ Parsed
    /\ op.preTx[op.key].tx_admitted_ba_record.bValid

\* the response was dropped: nothing sent, both TX records and their timers
\* as before the call
C18_Dropped ==
    /\ sent[Main] = << >>
    /\ AdmittedOf(op.key) = op.preTx[op.key].tx_admitted_ba_record
    /\ PendingOf(op.key) = op.preTx[op.key].tx_pending_ba_record
    /\ armed[<< TxAdm, op.key >>] = op.preArmed[<< TxAdm, op.key >>]
    /\ armed[<< TxPend, op.key >>] = op.preArmed[<< TxPend, op.key >>]

C19_TokenMatches ==
    op.DialogToken = op.preTx[op.key].tx_pending_ba_record.DialogToken

\* the handler gets as far as the attempt: QoS, HT and A-MPDU active, the TX
\* stream exists, its admitted record is not valid and its pending record is
ADDBARsp_ReachesAttempt ==
    /\ ADDBARsp_CapabilityReady(op.qos, op.ht, op.ampdu)
    /\ op.preTx[op.key].exists
    /\ ~op.preTx[op.key].tx_admitted_ba_record.bValid
    /\ op.preTx[op.key].tx_pending_ba_record.bValid

\* ieee80211_rx_ADDBARsp returns from a response with the pending record's
\* dialog token, status success and policy delayed
C19_Case ==
    /\ AtRet("ieee80211_rx_ADDBARsp")
    /\ Parsed
    /\ C19_TokenMatches
    /\ op.StatusCode = ADDBA_STATUS_SUCCESS
    /\ BAPolicy(op.BaParamSet) = BA_POLICY_DELAYED

C19_Outcome ==
    /\ ~PendingOf(op.key).bValid
    /\ ~AdmittedOf(op.key).bValid
    /\ txTs[op.key].add_ba_req_delayed
    /\ SentOneDelba(DELBA_REASON_END_BA)

C20_Case ==
    /\ AtRet("ieee80211_rx_ADDBARsp")
    /\ Parsed
    /\ op.DialogToken = op.preTx[op.key].tx_pending_ba_record.DialogToken
    /\ op.StatusCode # ADDBA_STATUS_SUCCESS

C20_Outcome ==
    /\ ~PendingOf(op.key).bValid
    /\ ~armed[<< TxPend, op.key >>]
    /\ ~AdmittedOf(op.key).bValid
    /\ txTs[op.key].add_ba_req_delayed
    /\ sent[Main] = << >>

\* C20 as stated: every response with matching dialog token and a status
\* other than success ends with the pending record invalid and its timer
\* cancelled, the admitted record still invalid, add_ba_req_delayed set and
\* no frame sent.
C20_FailureStatusAlwaysDelays == C20_Case => C20_Outcome

\* C20: a response with the dialog token of a valid pending record and a
\* status other than success, handled with QoS, HT and A-MPDU active on a
\* stream whose admitted record is not valid, ends with the pending record
\* invalid and its timer cancelled, the admitted record still invalid,
\* add_ba_req_delayed set and no frame sent.
C20_FailureStatusDelaysWhenAttemptReached ==
    (C20_Case /\ ADDBARsp_ReachesAttempt) => C20_Outcome

\* a refused attempt whose setup timer was still running
C20_Witness ==
    /\ C20_Case
    /\ ADDBARsp_ReachesAttempt
    /\ op.out = "status"
    /\ op.preArmed[<< TxPend, op.key >>]
    /\ C20_Outcome

\* ---- C21 ---------------------------------------------------------------
\* the frame/caller path takes a step of the call named n
MainStepOf(n) == pc'[Main] # pc[Main] /\ (op.name = n \/ op'.name = n)

\* ieee80211_rx_DELBA returns from a DELBA with Initiator = 1, handled with QoS
\* and HT active for an existing RX stream
C21_Case ==
    /\ AtRet("ieee80211_rx_DELBA")
    /\ Parsed
    /\ op.dir = RX_DIR
    /\ op.qos /\ op.ht
    /\ op.preRx[op.key].exists

\* C21: a DELBA with the initiator bit set, received with QoS and HT active
\* for an existing RX stream, leaves the RX admitted record invalid and its
\* timer cancelled and sends no frame.
C21_DelbaFromOriginatorTearsDownRx ==
    C21_Case =>
       /\ ~RxAdmittedOf(op.key).bValid
       /\ ~armed[<< RxAdm, op.key >>]
       /\ sent[Main] = << >>

\* ... and no step of a DELBA handled for the RX direction writes a TX stream
C21_TxUntouched ==
    [][(MainStepOf("ieee80211_rx_DELBA") /\ (op.dir = RX_DIR \/ op'.dir = RX_DIR))
          => txTs' = txTs]_vars

\* ---- C22 ---------------------------------------------------------------
\* the stream the DELBA is for exists in the direction its initiator bit selects
C22_StreamExists ==
    IF op.dir = RX_DIR THEN op.preRx[op.key].exists ELSE op.preTx[op.key].exists

\* ieee80211_rx_DELBA returns from a DELBA that came while QoS or HT was not
\* active, or for which no stream exists in the selected direction
C22_Case ==
    /\ AtRet("ieee80211_rx_DELBA")
    /\ Parsed
    /\ ~op.qos \/ ~op.ht \/ ~C22_StreamExists

\* C22: a DELBA received while QoS or HT is inactive, or for which no stream
\* exists in the direction the initiator bit selects, changes no BA record, no
\* stream flag and no timer, creates no stream and sends no frame.
C22_DelbaNotReadyIsSilentNoOp ==
    C22_Case =>
       /\ txTs = op.preTx
       /\ rxTs = op.preRx
       /\ armed = op.preArmed
       /\ sent[Main] = << >>
       /\ op.rc = -1

\* a DELBA for a TX stream with a live agreement, received with HT off
C22_Witness ==
    /\ C22_Case
    /\ op.qos /\ ~op.ht
    /\ op.dir = TX_DIR
    /\ AdmittedOf(op.key).bValid
    /\ armed[<< TxAdm, op.key >>]
    /\ txTs = op.preTx
    /\ sent[Main] = << >>

\* ---- C23 ---------------------------------------------------------------
\* the three frame handlers and the least frame length each one takes
C23_Handlers ==
    {"ieee80211_rx_ADDBAReq", "ieee80211_rx_ADDBARsp", "ieee80211_rx_DELBA"}

C23_MinLen ==
    HdrLen + (IF op.name = "ieee80211_rx_DELBA" THEN DelbaBodyLen ELSE AddbaBodyLen)

C23_Case == pc[Main] = "ret" /\ op.name \in C23_Handlers

\* the frame was dropped: failure result, nothing parsed, nothing changed,
\* nothing sent
C23_Dropped ==
    /\ op.rc = -1
    /\ op.out = "short"
    /\ op.key = NoKey
    /\ txTs = op.preTx /\ rxTs = op.preRx /\ armed = op.preArmed
    /\ sent[Main] = << >>

\* C23: a frame shorter than header + 9 bytes (ADDBA request and response) or
\* header + 6 bytes (DELBA) is dropped by its handler with result -1, no field
\* parsed, no state changed and no frame sent; a frame of exactly that length
\* is parsed.
C23_ShortFramesDropped ==
    C23_Case =>
       /\ HdrLen + Len(op.skb.payload) < C23_MinLen => C23_Dropped
       /\ HdrLen + Len(op.skb.payload) = C23_MinLen => Parsed /\ op.key # NoKey

\* a DELBA one byte short for a stream with a live agreement
C23_Witness ==
    /\ C23_Case
    /\ op.name = "ieee80211_rx_DELBA"
    /\ HdrLen + Len(op.skb.payload) = C23_MinLen - 1
    /\ \E k \in Keys : AdmittedOf(k).bValid
    /\ C23_Dropped

\* ---- C24 ---------------------------------------------------------------
\* the records of the direction TsInitDelBA was called for, before the call
C24_WasValid ==
    IF op.dir = TX_DIR
    THEN \/ op.preTx[op.key].tx_pending_ba_record.bValid
         \/ op.preTx[op.key].tx_admitted_ba_record.bValid
    ELSE op.preRx[op.key].rx_admitted_ba_record.bValid

\* all records of that direction are invalid and their timers are not pending
C24_TornDown ==
    IF op.dir = TX_DIR
    THEN /\ ~PendingOf(op.key).bValid /\ ~armed[<< TxPend, op.key >>]
         /\ ~AdmittedOf(op.key).bValid /\ ~armed[<< TxAdm, op.key >>]
    ELSE /\ ~RxAdmittedOf(op.key).bValid /\ ~armed[<< RxAdm, op.key >>]

\* C24: TsInitDelBA leaves every BA record of its direction invalid with its
\* timer cancelled, and has sent exactly one DELBA with reason end-BA if one of
\* those records was valid before the call and no frame if none was.
C24_TerminateTearsDownAndNotifies ==
    AtRet("TsInitDelBA") =>
       /\ C24_TornDown
       /\ IF C24_WasValid
          THEN SentOneDelba(DELBA_REASON_END_BA) /\ sent[Main][1].addr1 = op.key[1]
          ELSE sent[Main] = << >>

\* ---- C25 ---------------------------------------------------------------
\* the setup-timeout callback of stream k runs from entry to return
C25_Callback(k) ==
    /\ pc[<< TxPend, k >>] = "setup_body"
    /\ pc'[<< TxPend, k >>] = "cbret"

C25_Effect(k) ==
    /\ ~txTs'[k].add_ba_req_in_progress
    /\ txTs'[k].add_ba_req_delayed
    /\ ~txTs'[k].tx_pending_ba_record.bValid
    /\ sent'[<< TxPend, k >>] = << >>
    /\ txTs'[k].tx_admitted_ba_record = txTs[k].tx_admitted_ba_record
    /\ txTs'[k].using_ba = txTs[k].using_ba
    /\ rxTs' = rxTs

C26_Fired(t) == pc[t] = CallbackEntry(t) /\ RecOf(t).bValid

\* the callback has come to its end: the record is invalid and the one frame
\* sent is a DELBA with reason timeout to the stream's peer, as originator for
\* the TX record and as recipient for the RX record
C26_Completed(t) ==
    /\ pc[t] = "cbret"
    /\ ~RecOf(t).bValid
    /\ Len(sent[t]) = 1
    /\ IsDelba(sent[t][1])
    /\ DelbaReason(sent[t][1]) = DELBA_REASON_TIMEOUT
    /\ sent[t][1].addr1 = t[2][1]
    /\ DelbaInitiator(DelbaParamSetOf(sent[t][1])) = (IF t[1] = TxAdm THEN 1 ELSE 0)

\* C26: TxBaInactTimeout and RxBaInactTimeout, once started on a valid
\* admitted record, complete with the record invalid and exactly one DELBA
\* with reason timeout sent to the stream's peer.
C26_InactivityCallbackCompletes ==
    \A t \in {TxAdm, RxAdm} \X Keys : C26_Fired(t) ~> C26_Completed(t)

\* ---- C28 ---------------------------------------------------------------
\* a step of timer t's callback, or the timer's expiry
TimerStepOf(t) == pc'[t] # pc[t]

\* a step of the receive side of a stream: ieee80211_rx_ADDBAReq, TsInitDelBA
\* for RX_DIR, RxBaInactTimeout
C28_RxSideStep ==
    \/ MainStepOf("ieee80211_rx_ADDBAReq")
    \/ MainStepOf("TsInitDelBA") /\ (op.dir = RX_DIR \/ op'.dir = RX_DIR)
    \/ \E k \in Keys : TimerStepOf(<< RxAdm, k >>)

\* a step of the transmit side: TsInitAddBA, ieee80211_rx_ADDBARsp, TsInitDelBA
\* for TX_DIR, BaSetupTimeOut, TxBaInactTimeout
C28_TxSideStep ==
    \/ MainStepOf("TsInitAddBA")
    \/ MainStepOf("ieee80211_rx_ADDBARsp")
    \/ MainStepOf("TsInitDelBA") /\ (op.dir = TX_DIR \/ op'.dir = TX_DIR)
    \/ \E k \in Keys : TimerStepOf(<< TxPend, k >>) \/ TimerStepOf(<< TxAdm, k >>)

\* C28: the receive-side operations never change a TX stream's pending record,
\* admitted record or flags, and the transmit-side operations never change an
\* RX admitted record.
C28_DirectionsIndependent ==
    [][/\ C28_RxSideStep => txTs' = txTs
       /\ C28_TxSideStep => rxTs' = rxTs]_vars

\* an ADDBA request admitted for a peer to which an agreement in the transmit
\* direction is set up, which is as it was before the request
C28_Witness ==
    /\ AtRet("ieee80211_rx_ADDBAReq")
    /\ op.out = "accept"
    /\ RxAdmittedOf(op.key).bValid
    /\ AdmittedOf(op.key).bValid
    /\ txTs = op.preTx

\* ---- C29 ---------------------------------------------------------------
\* stream k's admitted record goes from not valid to valid
C29_BecomesAdmitted(k) ==
    /\ ~txTs[k].tx_admitted_ba_record.bValid
    /\ txTs'[k].tx_admitted_ba_record.bValid

\* the step belongs to an ieee80211_rx_ADDBARsp call for stream k that found,
\* when it started, the pending record valid and the response carrying its
\* dialog token, status success and policy immediate
C29_ByMatchingResponse(k) ==
    /\ MainStepOf("ieee80211_rx_ADDBARsp")
    /\ op.key = k
    /\ op.preTx[k].tx_pending_ba_record.bValid
    /\ op.DialogToken = op.preTx[k].tx_pending_ba_record.DialogToken
    /\ op.StatusCode = ADDBA_STATUS_SUCCESS
    /\ BAPolicy(op.BaParamSet) = BA_POLICY_IMMEDIATE

\* C29: the TX admitted record becomes valid only in a step of
\* ieee80211_rx_ADDBARsp that found the pending record valid and the response
\* carrying the pending record's dialog token, status success and policy
\* immediate; no other operation or callback makes it valid.
C29_AdmittedOnlyThroughPending ==
    [][\A k \in Keys : C29_BecomesAdmitted(k) => C29_ByMatchingResponse(k)]_vars

\* the admitted record has just been made valid by a response
C29_Witness ==
    /\ AtRet("ieee80211_rx_ADDBARsp")
    /\ op.out = "commit"
    /\ ~op.preTx[op.key].tx_admitted_ba_record.bValid
    /\ op.preTx[op.key].tx_pending_ba_record.bValid
    /\ AdmittedOf(op.key).bValid

\* ---- C30 ---------------------------------------------------------------
\* ieee80211_rx_ADDBARsp returns from a response it committed
C30_Case ==
    /\ AtRet("ieee80211_rx_ADDBARsp")
    /\ op.out = "commit"

\* C30: a committing ieee80211_rx_ADDBARsp leaves the TX admitted record with
\* the response's dialog token, timeout value and parameter set and with the
\* start sequence control TsInitAddBA stored in the pending record, and its
\* timer armed exactly when the response's timeout is not 0.
C30_CommitCopiesResponse ==
    C30_Case =>
       /\ AdmittedOf(op.key).bValid
       /\ AdmittedOf(op.key).DialogToken = op.enc.DialogToken
       /\ AdmittedOf(op.key).BaTimeoutValue = op.enc.BaTimeoutValue
       /\ AdmittedOf(op.key).BaParamSet = op.enc.BaParamSet
       /\ AdmittedOf(op.key).BaStartSeqCtrl
             = op.preTx[op.key].tx_pending_ba_record.BaStartSeqCtrl
       /\ armed[<< TxAdm, op.key >>] <=> (op.enc.BaTimeoutValue # 0)

\* a commit with a nonzero timeout and a parameter set other than the one
\* that was asked for
C30_Witness ==
    /\ C30_Case
    /\ op.enc.BaTimeoutValue # 0
    /\ op.enc.BaParamSet # op.preTx[op.key].tx_pending_ba_record.BaParamSet
    /\ AdmittedOf(op.key).BaParamSet = op.enc.BaParamSet
    /\ SeqNum(AdmittedOf(op.key).BaStartSeqCtrl) # 0
    /\ armed[<< TxAdm, op.key >>]


\* ------------------------------------------------------------------------
\* C27  Session isolation, checked with two streams of one peer
\* ------------------------------------------------------------------------
\* the stream a step of the frame/caller path is for: the one its call or
\* frame names (none when the frame is dropped before its TID is read)
C27_MainStepFor(k) ==
    /\ pc'[Main] # pc[Main]
    /\ (IF pc[Main] = "idle" THEN op'.key ELSE op.key) = k

\* a step of an operation (a call, a frame handler or a timeout callback) of
\* stream k
C27_StepFor(k) ==
    \/ C27_MainStepFor(k)
    \/ k \in Keys /\ \E x \in {TxPend, TxAdm, RxAdm} : TimerStepOf(<< x, k >>)

\* the BA records, flags and timers of stream j, in both directions
C27_Untouched(j) ==
    /\ txTs'[j] = txTs[j]
    /\ rxTs'[j] = rxTs[j]
    /\ \A x \in {TxPend, TxAdm, RxAdm} : armed'[<< x, j >>] = armed[<< x, j >>]

\* C27: every step of TsInitAddBA, ieee80211_rx_ADDBAReq, ieee80211_rx_ADDBARsp,
\* ieee80211_rx_DELBA, TsInitDelBA and of the three timeout callbacks, on every
\* path, leaves the BA records, flags and timers of every other stream
\* unchanged.
C27_SessionIsolation ==
    [][\A k \in Keys \cup {NoKey} :
          C27_StepFor(k) => \A j \in Keys \ {k} : C27_Untouched(j)]_vars

\* An ADDBA request for the second stream has been admitted while the first
\* stream holds an admitted TX agreement with its inactivity timer pending.
C27_Witness ==
    /\ pc[Main] = "ret"
    /\ op.name = "ieee80211_rx_ADDBAReq"
    /\ op.key \in Peers \X OtherTIDs
    /\ rxTs[op.key].rx_admitted_ba_record.bValid
    /\ \E k \in Peers \X OwnTIDs :
          /\ AdmittedOf(k).bValid
          /\ armed[<< TxAdm, k >>]


\* ------------------------------------------------------------------------
\* C31  Dialog tokens of superseded attempts, checked around the u8 wrap
\* ------------------------------------------------------------------------
\* a response with the dialog token of the attempt before the one tx_pending
\* holds has been handled (the frame was long enough to be parsed)
C31_Case ==
    /\ AtRet("ieee80211_rx_ADDBARsp")
    /\ Parsed
    /\ op.DialogToken = (op.preTx[op.key].tx_pending_ba_record.DialogToken + U8 - 1) % U8

\* a TsInitAddBA that went past the no-op check left the token of the record
\* one higher, modulo 256
C31_TokenAdvancesByOne ==
    C14_Case =>
        PendingOf(op.key).DialogToken
            = (op.preTx[op.key].tx_pending_ba_record.DialogToken + 1) % U8

\* the response was not committed: tx_admitted was not made valid and holds
\* the fields it held before the call
C31_NotCommitted ==
    /\ AdmittedOf(op.key).bValid => op.preTx[op.key].tx_admitted_ba_record.bValid
    /\ [AdmittedOf(op.key) EXCEPT !.bValid = FALSE]
         = [op.preTx[op.key].tx_admitted_ba_record EXCEPT !.bValid = FALSE]

\* the handler drops the response at the "already admitted" check
C31_DroppedAsAdmitted ==
    /\ ADDBARsp_CapabilityReady(op.qos, op.ht, op.ampdu)
    /\ op.preTx[op.key].exists
    /\ op.preTx[op.key].tx_admitted_ba_record.bValid

C32_Case ==
    /\ C15_Case
    /\ \/ ~op.qos
       \/ ~op.ht
       \/ ~GetTs(op.preRx, op.key, TRUE, op.canAdd)
       \/ BAPolicy(op.enc.BaParamSet) = BA_POLICY_DELAYED

\* the status the rejection carries
C32_Status ==
    IF ~op.qos \/ ~op.ht \/ ~GetTs(op.preRx, op.key, TRUE, op.canAdd)
    THEN ADDBA_STATUS_REFUSED
    ELSE ADDBA_STATUS_INVALID_PARAM

\* C32: the one frame a rejecting ieee80211_rx_ADDBAReq sends is an ADDBA
\* response to the requester with status refused (QoS or HT off, no RX stream)
\* or invalid parameter (policy delayed), the dialog token and timeout the
\* peer put in the request, and the peer's parameter set with the policy bit
\* set to immediate and TID, A-MSDU bit and buffer size as received.
C32_RejectionEchoesRequest ==
    C32_Case =>
       /\ SentOneAddbaRsp(C32_Status)
       /\ sent[Main][1].addr1 = op.skb.addr2
       /\ RspDialogToken(sent[Main][1]) = op.enc.DialogToken
       /\ RspBaTimeoutVal(sent[Main][1]) = op.enc.BaTimeoutValue
       /\ BAPolicy(RspBaParamSet(sent[Main][1])) = BA_POLICY_IMMEDIATE
       /\ TID(RspBaParamSet(sent[Main][1])) = TID(op.enc.BaParamSet)
       /\ AMSDU_Support(RspBaParamSet(sent[Main][1])) = AMSDU_Support(op.enc.BaParamSet)
       /\ BufferSize(RspBaParamSet(sent[Main][1])) = BufferSize(op.enc.BaParamSet)

\* A request with policy delayed, timeout 100, A-MSDU bit 1 and buffer size 64
\* that came with HT off has been refused.
C32_Witness ==
    /\ C32_Case
    /\ op.qos /\ ~op.ht
    /\ BAPolicy(op.enc.BaParamSet) = BA_POLICY_DELAYED
    /\ op.enc.BaTimeoutValue = 100
    /\ SentOneAddbaRsp(ADDBA_STATUS_REFUSED)
    /\ RspBaParamSet(sent[Main][1]) = MkBaParamSet(1, BA_POLICY_IMMEDIATE, op.key[2], 64)


\* ------------------------------------------------------------------------
\* C33  Initiator bit and TID of every DELBA sent
\* ------------------------------------------------------------------------
\* the DELBA frames context c has handed to the driver in its current call
C33_DelbasOf(c) == { i \in 1 .. Len(sent[c]) : IsDelba(sent[c][i]) }

\* c sends as originator of the agreement: ieee80211_rx_ADDBARsp rejecting,
\* TsInitDelBA for TX_DIR, TxBaInactTimeout
C33_AsOriginator(c) ==
    IF c = Main
    THEN \/ op.name = "ieee80211_rx_ADDBARsp"
         \/ op.name = "TsInitDelBA" /\ op.dir = TX_DIR
    ELSE c[1] = TxAdm

\* c sends as recipient: TsInitDelBA for RX_DIR, RxBaInactTimeout
C33_AsRecipient(c) ==
    IF c = Main
    THEN op.name = "TsInitDelBA" /\ op.dir = RX_DIR
    ELSE c[1] = RxAdm

\* the parameter set of the BA record c passes to ieee80211_send_DELBA: the
\* transient record holding the response's parameter set (line 530), the
\* admitted record if valid and else the pending one (line 650), the RX
\* admitted record (line 659), the admitted record of the timer (686, 700)
C33_RecordParamSet(c) ==
    IF c = Main
    THEN CASE op.name = "ieee80211_rx_ADDBARsp" -> op.BaParamSet
           [] op.name = "TsInitDelBA" /\ op.dir = TX_DIR ->
                 IF AdmittedOf(op.key).bValid
                 THEN AdmittedOf(op.key).BaParamSet
                 ELSE PendingOf(op.key).BaParamSet
           [] OTHER -> RxAdmittedOf(op.key).BaParamSet
    ELSE RecOf(c).BaParamSet

\* C33: every DELBA this file sends has initiator bit 1 when sent by
\* ieee80211_rx_ADDBARsp, TsInitDelBA(TX_DIR) or TxBaInactTimeout and 0 when
\* sent by TsInitDelBA(RX_DIR) or RxBaInactTimeout, no other function sends
\* one, and its TID is that of the parameter set of the record handed to
\* ieee80211_send_DELBA.
C33_DelbaInitiatorAndTid ==
    \A c \in Ctxs : \A i \in C33_DelbasOf(c) :
       /\ C33_AsOriginator(c) \/ C33_AsRecipient(c)
       /\ DelbaInitiator(DelbaParamSetOf(sent[c][i])) = (IF C33_AsOriginator(c) THEN 1 ELSE 0)
       /\ DelbaTID(DelbaParamSetOf(sent[c][i])) = TID(C33_RecordParamSet(c))

\* TxBaInactTimeout has sent its DELBA, with initiator bit 1 and the TID of
\* the stream's admitted record
C33_Witness ==
    \E k \in Keys :
       /\ pc[<< TxAdm, k >>] = "cbret"
       /\ C33_DelbasOf(<< TxAdm, k >>) # {}
       /\ DelbaInitiator(DelbaParamSetOf(sent[<< TxAdm, k >>][1])) = 1
       /\ DelbaTID(DelbaParamSetOf(sent[<< TxAdm, k >>][1])) = k[2]
       /\ TID(AdmittedOf(k).BaParamSet) = k[2]


\* ------------------------------------------------------------------------
\* C34  A pending attempt ends
\* ------------------------------------------------------------------------
\* TsInitAddBA returns and tx_pending of its stream is valid
C34_MadeValid(k) ==
    /\ AtRet("TsInitAddBA")
    /\ op.key = k
    /\ PendingOf(k).bValid

\* tx_pending is invalid again, or a further TsInitAddBA is at work
C34_Ended(k) ==
    \/ ~PendingOf(k).bValid
    \/ op.name = "TsInitAddBA" /\ pc[Main] \in {"init_sync", "init_arm"}

\* C34: with the timer service fair and no further TsInitAddBA on the stream,
\* a tx_pending record that TsInitAddBA made valid becomes invalid.
C34_PendingEventuallyEnds ==
    \A k \in Peers \X OwnTIDs : C34_MadeValid(k) ~> C34_Ended(k)


\* ------------------------------------------------------------------------
\* C35  Inactivity expiry comes to an end
\* ------------------------------------------------------------------------
\* the admitted record of timer t stands, activated with a nonzero timeout,
\* and no call or frame is being handled
C35_Activated(t) ==
    /\ pc[Main] = "idle"
    /\ RecOf(t).bValid
    /\ RecOf(t).BaTimeoutValue # 0
    /\ lastCall[t] = [kind |-> "activate", Time |-> RecOf(t).BaTimeoutValue]
    /\ armed[t]

\* the timeout callback stands at its return with the record invalid and a
\* DELBA with reason timeout sent
C35_Expired(t) ==
    /\ pc[t] = "cbret"
    /\ ~RecOf(t).bValid
    /\ \E i \in 1 .. Len(sent[t]) :
          IsDelba(sent[t][i]) /\ DelbaReason(sent[t][i]) = DELBA_REASON_TIMEOUT

\* a further call or frame is being handled
C35_FurtherCall == pc[Main] # "idle"

\* C35: with the timer service fair and no further frame or call, an admitted
\* record activated with a nonzero timeout reaches the return of its timeout
\* callback with the record invalid and a DELBA with reason timeout sent.
C35_InactivityExpiryTerminates ==
    \A t \in {TxAdm, RxAdm} \X (Peers \X OwnTIDs) :
        C35_Activated(t) ~> (C35_Expired(t) \/ C35_FurtherCall)


\* ------------------------------------------------------------------------
\* C36  ieee80211_rx_DELBA against a setup timeout on the same TX stream
\* ------------------------------------------------------------------------
\* ieee80211_rx_DELBA returns from a DELBA with Initiator = 0 that it handled
\* for an existing TX stream, whatever the timer callbacks did meanwhile
C36_Case ==
    /\ AtRet("ieee80211_rx_DELBA")
    /\ Parsed
    /\ op.dir = TX_DIR
    /\ op.qos /\ op.ht
    /\ op.preTx[op.key].exists

\* C36: under every interleaving with BaSetupTimeOut, at the return of
\* ieee80211_rx_DELBA for the TX side add_ba_req_delayed and
\* add_ba_req_in_progress are false and both TX records are invalid.
C36_DelbaWinsOverSetupTimeout ==
    C36_Case =>
       /\ ~txTs[op.key].add_ba_req_delayed
       /\ ~txTs[op.key].add_ba_req_in_progress
       /\ ~PendingOf(op.key).bValid
       /\ ~AdmittedOf(op.key).bValid


\* ------------------------------------------------------------------------
\* C37  ieee80211_rx_ADDBARsp against the setup timeout of the same attempt
\* ------------------------------------------------------------------------
\* ieee80211_rx_ADDBARsp returns having committed the pending attempt, and
\* add_ba_req_delayed was false while the attempt was pending: no step
\* changes the flag between TsInitAddBA and the call that takes the attempt
\* without also ending the attempt, so the value the call found is the
\* value the attempt was initiated with
C37_Case ==
    /\ AtRet("ieee80211_rx_ADDBARsp")
    /\ op.out = "commit"
    /\ AdmittedOf(op.key).bValid
    /\ op.preTx[op.key].tx_pending_ba_record.bValid
    /\ ~op.preTx[op.key].add_ba_req_delayed

\* C37: under every interleaving with BaSetupTimeOut, an attempt that
\* ieee80211_rx_ADDBARsp commits is not also marked as a delayed setup:
\* add_ba_req_delayed is still false when the call returns.
C37_CommitExcludesSetupTimeout ==
    C37_Case => ~txTs[op.key].add_ba_req_delayed


\* ------------------------------------------------------------------------
\* C38  tx_pending and tx_admitted of one TX stream
\* ------------------------------------------------------------------------
C38_BothValid(k) == PendingOf(k).bValid /\ AdmittedOf(k).bValid

\* C38 as stated: in every reachable state tx_pending and tx_admitted of the
\* same TX stream are never both valid.
C38_NeverBothValid == \A k \in Keys : ~C38_BothValid(k)

\* the step that sets tx_pending valid in TsInitAddBA (line 23 through line
\* 635), taken on a stream whose tx_admitted is valid
C38_InitOverAdmitted(k) ==
    /\ At(Main, "init_sync")
    /\ op.name = "TsInitAddBA"
    /\ op.key = k
    /\ AdmittedOf(k).bValid

\* C38: the two TX records of a stream become valid together only by
\* TsInitAddBA when it is called on a stream whose tx_admitted is valid; no
\* step of ieee80211_rx_ADDBARsp, ieee80211_rx_DELBA, TsInitDelBA or of a
\* timer callback makes them both valid.
C38_BothValidOnlyByInitOverAdmitted ==
    [][\A k \in Keys :
          (~C38_BothValid(k) /\ C38_BothValid(k)') => C38_InitOverAdmitted(k)]_vars

\* TsInitAddBA has returned from a new attempt on a stream whose tx_admitted
\* was and is valid: both TX records are valid
C38_Witness ==
    /\ AtRet("TsInitAddBA")
    /\ op.out = "setup"
    /\ op.preTx[op.key].tx_admitted_ba_record.bValid
    /\ C38_BothValid(op.key)


\* ------------------------------------------------------------------------
\* C39  DeActivateBAEntry on an invalid record, and twice in a row
\* ------------------------------------------------------------------------
\* DeActivateBAEntry applied to the record of timer t as it is now, once and
\* once more
C39_Once(t) == DeActivateBAEntry(RecOf(t), armed, t)
C39_Twice(t) == DeActivateBAEntry(C39_Once(t).ba, C39_Once(t).timers, t)

\* one call: bValid false, the record's timer not pending, every other field
\* of the record and every other timer as before
C39_OneCall(t) ==
    /\ C39_Once(t).ba = [RecOf(t) EXCEPT !.bValid = FALSE]
    /\ C39_Once(t).timers = [armed EXCEPT ![t] = FALSE]

\* ieee80211_rx_ADDBARsp returns from the delayed-policy branch, where line
\* 504 deactivated tx_admitted, a record that was invalid with no timer
\* pending when the call began
C39_Case ==
    /\ AtRet("ieee80211_rx_ADDBARsp")
    /\ op.out = "policy"
    /\ ~op.preTx[op.key].tx_admitted_ba_record.bValid
    /\ ~op.preArmed[<< TxAdm, op.key >>]

\* C39: for every record state the program reaches, DeActivateBAEntry on an
\* invalid record with no pending timer changes nothing, and two calls in a
\* row leave what one call leaves (bValid false, timer not pending, all
\* other fields unchanged); the call at line 504 on an invalid record leaves
\* the record and its timer as they were.
C39_DeactivateIdempotent ==
    /\ \A t \in Timers :
          /\ C39_OneCall(t)
          /\ C39_Twice(t) = C39_Once(t)
          /\ (~RecOf(t).bValid /\ ~armed[t]) =>
                 C39_Once(t) = [ba |-> RecOf(t), timers |-> armed]
    /\ C39_Case =>
          /\ AdmittedOf(op.key) = op.preTx[op.key].tx_admitted_ba_record
          /\ ~armed[<< TxAdm, op.key >>]

\* the delayed-policy branch has deactivated an invalid tx_admitted whose
\* timer was not pending, next to a valid record of another kind
C39_Witness ==
    /\ C39_Case
    /\ \E t \in Timers : RecOf(t).bValid /\ armed[t]

=============================================================================
